---- MODULE Spec2Model ----
(***************************************************************************)
(* feeder-node: the sample buffers (AudioQueue, RingBuffer), the playback  *)
(* state machine of the two rendering adapters (ScriptProcessorBackend on  *)
(* the main thread, WorkletProcessor on the audio thread behind            *)
(* AudioWorkletBackend) and the FeederNode control surface.                *)
(*                                                                         *)
(* Sample counts are scaled down: a batch is BatchSize frames instead of   *)
(* 128..16384 and the configured buffer length is InitBufferLength frames  *)
(* instead of >= 16384.  Samples are small integers, which Float32Array    *)
(* holds exactly, so the copy `new Float32Array(data)` keeps every value.  *)
(***************************************************************************)
EXTENDS Integers, Sequences, FiniteSets, TLC

(* ------------------------------ bounds -------------------------------- *)
\* frames requested by one pull (batchSize / BATCH_SIZE, scaled down)
BatchSize == 2
\* buffer length handed to the backend at construction (scaled down)
InitBufferLength == 1
\* a feed is not issued when it would leave more than MaxFill unread frames
MaxFill == 3
\* most messages in flight between the main thread and the processor, both
\* directions together
MaxQueue == 2
\* SpecQueue: most frames written to the queue between two clears
MaxCallbackId == 2
MaxHist == 4
\* SpecQueue: most chunks held by the queue
MaxChunks == 3
\* SpecScenario: notifications of one kind counted
NoteCap == 3

(* ------------------------ program constants --------------------------- *)
UNINITIALIZED == 1
READY == 2
PLAYING == 3
STARVED == 4

RING_BUFFER == "ring_buffer"
FIFO_QUEUE == "fifo_queue"

\* JavaScript values that are not numbers
Undefined == "undefined"
NaN == "NaN"

\* `channels = null`: no output arrays supplied
Null == <<>>

\* content an output array may hold before the adapter writes it
Stale == 0 - 1

Min(a, b) == IF a < b THEN a ELSE b

Zeros(n) == [k \in 1..n |-> 0]

(* --------------------------- AudioQueue ------------------------------- *)
\* new AudioQueue(initialCapacity, nChannels)
NewAudioQueue(initialCapacity, nCh) ==
    [kind |-> FIFO_QUEUE, queue |-> <<>>, nChannels |-> nCh,
     initialCapacity |-> initialCapacity, samplesInQueue |-> 0]

\* get bufferLength(): the number of samples in the queue
AQBufferLength(q) == q.samplesInQueue

AQGetNReadableSamples(q) == q.samplesInQueue

\* the loop of read() keeping the rest of a half-read chunk from the wrong
\* index (samples for frames): the fault C10 excludes
RECURSIVE AQReadLoopShortSlice(_, _, _, _, _)
AQReadLoopShortSlice(queue, chans, samplesRead, readableSamples, nCh) ==
    IF samplesRead < readableSamples /\ Len(queue) > 0
    THEN LET chunk == Head(queue)
             samplesInChunk == Len(chunk) \div nCh
             toRead == Min(samplesInChunk, readableSamples - samplesRead)
             copied == [j \in DOMAIN chans |->
                          [k \in DOMAIN chans[j] |->
                             IF j <= nCh /\ k > samplesRead /\ k <= samplesRead + toRead
                             THEN chunk[(k - samplesRead - 1) * nCh + j]
                             ELSE chans[j][k]]]
             rest == IF toRead = samplesInChunk
                     THEN Tail(queue)
                     ELSE <<SubSeq(chunk, toRead + 1, Len(chunk))>> \o Tail(queue)
         IN  AQReadLoopShortSlice(rest, copied, samplesRead + toRead, readableSamples, nCh)
    ELSE [queue |-> queue, chans |-> chans, samplesRead |-> samplesRead]

\* the while loop of read(): consume chunks from the front of the queue
RECURSIVE AQReadLoop(_, _, _, _, _)
AQReadLoop(queue, chans, samplesRead, readableSamples, nCh) ==
    IF samplesRead < readableSamples /\ Len(queue) > 0
    THEN LET chunk == Head(queue)
             samplesInChunk == Len(chunk) \div nCh
             toRead == Min(samplesInChunk, readableSamples - samplesRead)
             copied == [j \in DOMAIN chans |->
                          [k \in DOMAIN chans[j] |->
                             IF j <= nCh /\ k > samplesRead /\ k <= samplesRead + toRead
                             THEN chunk[(k - samplesRead - 1) * nCh + j]
                             ELSE chans[j][k]]]
             rest == IF toRead = samplesInChunk
                     THEN Tail(queue)
                     ELSE <<SubSeq(chunk, toRead * nCh + 1, Len(chunk))>> \o Tail(queue)
         IN  AQReadLoop(rest, copied, samplesRead + toRead, readableSamples, nCh)
    ELSE [queue |-> queue, chans |-> chans, samplesRead |-> samplesRead]

\* read() without the zero-fill of the caller's arrays when nothing is
\* readable: the fault C6 excludes
AQReadNoZeroFill(q, nSamples, channels) ==
    LET readableSamples == Min(nSamples, AQGetNReadableSamples(q))
    IN  IF readableSamples = 0
        THEN [buf |-> q,
              out |-> IF channels = Null
                      THEN [j \in 1..q.nChannels |-> <<>>]
                      ELSE channels]
        ELSE LET start == IF channels = Null
                          THEN [j \in 1..q.nChannels |-> Zeros(nSamples)]
                          ELSE [j \in DOMAIN channels |-> Zeros(Len(channels[j]))]
                 r == AQReadLoop(q.queue, start, 0, readableSamples, q.nChannels)
             IN  [buf |-> [q EXCEPT !.queue = r.queue,
                                    !.samplesInQueue = q.samplesInQueue - r.samplesRead],
                  out |-> r.chans]

\* read() that copies into the caller's arrays without clearing them first:
\* the fault C12 excludes
AQReadNoInitialFill(q, nSamples, channels) ==
    LET readableSamples == Min(nSamples, AQGetNReadableSamples(q))
    IN  IF readableSamples = 0
        THEN [buf |-> q,
              out |-> IF channels = Null
                      THEN [j \in 1..q.nChannels |-> <<>>]
                      ELSE [j \in DOMAIN channels |->
                              [k \in DOMAIN channels[j] |->
                                 IF k <= nSamples THEN 0 ELSE channels[j][k]]]]
        ELSE LET start == IF channels = Null
                          THEN [j \in 1..q.nChannels |-> Zeros(nSamples)]
                          ELSE channels
                 r == AQReadLoop(q.queue, start, 0, readableSamples, q.nChannels)
             IN  [buf |-> [q EXCEPT !.queue = r.queue,
                                    !.samplesInQueue = q.samplesInQueue - r.samplesRead],
                  out |-> r.chans]

\* read(nSamples, channels): channels is Null or the caller's output arrays
AQRead(q, nSamples, channels) ==
    LET readableSamples == Min(nSamples, AQGetNReadableSamples(q))
    IN  IF readableSamples = 0
        THEN [buf |-> q,
              out |-> IF channels = Null
                      THEN [j \in 1..q.nChannels |-> <<>>]
                      ELSE [j \in DOMAIN channels |->
                              [k \in DOMAIN channels[j] |->
                                 IF k <= nSamples THEN 0 ELSE channels[j][k]]]]
        ELSE LET start == IF channels = Null
                          THEN [j \in 1..q.nChannels |-> Zeros(nSamples)]
                          ELSE [j \in DOMAIN channels |-> Zeros(Len(channels[j]))]
                 r == AQReadLoop(q.queue, start, 0, readableSamples, q.nChannels)
             IN  [buf |-> [q EXCEPT !.queue = r.queue,
                                    !.samplesInQueue = q.samplesInQueue - r.samplesRead],
                  out |-> r.chans]

\* write() that counts samples where it should count frames: the fault C13
\* excludes
AQWriteCountsSamples(q, float32Data) ==
    LET n == q.samplesInQueue + Len(float32Data)
    IN  [buf |-> [q EXCEPT !.queue = Append(q.queue, float32Data),
                           !.samplesInQueue = n],
         didResize |-> FALSE, bufferLength |-> n]

\* write() that reports a resize once the queue holds more than its initial
\* capacity: the fault C22 excludes
AQWriteReportsGrowth(q, float32Data) ==
    LET n == q.samplesInQueue + (Len(float32Data) \div q.nChannels)
    IN  [buf |-> [q EXCEPT !.queue = Append(q.queue, float32Data),
                           !.samplesInQueue = n],
         didResize |-> n > q.initialCapacity, bufferLength |-> n]

\* write(float32Data): push a copy; didResize is always false
AQWrite(q, float32Data) ==
    LET n == q.samplesInQueue + (Len(float32Data) \div q.nChannels)
    IN  [buf |-> [q EXCEPT !.queue = Append(q.queue, float32Data),
                           !.samplesInQueue = n],
         didResize |-> FALSE, bufferLength |-> n]

\* clear() that drops the chunks and keeps the count: the fault C5 excludes
AQClearKeepsCount(q) == [q EXCEPT !.queue = <<>>]

\* clear()
AQClear(q) == [q EXCEPT !.queue = <<>>, !.samplesInQueue = 0]

(* --------------------------- RingBuffer -------------------------------- *)
\* ring-buffer.js is not part of the sources at hand; it is modelled from its
\* contract: capacity `bufferLength`, the unread frames in arrival order,
\* growth by the length of the write that does not fit.
NewRingBuffer(bufferLength, nCh) ==
    [kind |-> RING_BUFFER, bufferLength |-> bufferLength, nChannels |-> nCh,
     data |-> <<>>]

RBBufferLength(b) == b.bufferLength

RBGetNReadableSamples(b) == Len(b.data) \div b.nChannels

RBRead(b, nSamples, channels) ==
    LET n == Min(nSamples, RBGetNReadableSamples(b))
        frame(j, k) == b.data[(k - 1) * b.nChannels + j]
    IN  [buf |-> [b EXCEPT !.data = SubSeq(b.data, n * b.nChannels + 1, Len(b.data))],
         out |-> IF channels = Null
                 THEN [j \in 1..b.nChannels |-> [k \in 1..n |-> frame(j, k)]]
                 ELSE [j \in DOMAIN channels |->
                         [k \in DOMAIN channels[j] |->
                            IF j <= b.nChannels /\ k <= n THEN frame(j, k)
                            ELSE IF k <= nSamples THEN 0 ELSE channels[j][k]]]]

RBWrite(b, float32Data) ==
    LET n == Len(float32Data) \div b.nChannels
        didResize == RBGetNReadableSamples(b) + n > b.bufferLength
        newLength == IF didResize THEN b.bufferLength + n ELSE b.bufferLength
    IN  [buf |-> [b EXCEPT !.data = b.data \o float32Data, !.bufferLength = newLength],
         didResize |-> didResize, bufferLength |-> newLength]

RBClear(b) == [b EXCEPT !.data = <<>>]

(* ------------------- the buffer behind an adapter ---------------------- *)
\* `new AudioQueue(...)` or `new RingBuffer(...)`, by buffer type
NewBuffer(type, bufferLength, nCh) ==
    IF type = FIFO_QUEUE THEN NewAudioQueue(bufferLength, nCh)
    ELSE NewRingBuffer(bufferLength, nCh)

NoBuffer == [kind |-> Undefined]

\* this._buffer.bufferLength
BufferLengthOf(b) ==
    IF b.kind = FIFO_QUEUE THEN AQBufferLength(b) ELSE RBBufferLength(b)

\* this._buffer.getNReadableSamples()
GetNReadableSamples(b) ==
    IF b.kind = FIFO_QUEUE THEN AQGetNReadableSamples(b) ELSE RBGetNReadableSamples(b)

\* this._buffer.read(nSamples, channels)
BufferRead(b, nSamples, channels) ==
    IF b.kind = FIFO_QUEUE THEN AQRead(b, nSamples, channels)
    ELSE RBRead(b, nSamples, channels)

\* this._buffer.write(float32Data)
BufferWrite(b, float32Data) ==
    IF b.kind = FIFO_QUEUE THEN AQWrite(b, float32Data) ELSE RBWrite(b, float32Data)

\* this._buffer.clear()
BufferClear(b) == IF b.kind = FIFO_QUEUE THEN AQClear(b) ELSE RBClear(b)

\* the unread frames of a buffer, interleaved, oldest first
RECURSIVE Flatten(_)
Flatten(chunks) == IF chunks = <<>> THEN <<>> ELSE Head(chunks) \o Flatten(Tail(chunks))

Content(b) ==
    IF b.kind = FIFO_QUEUE THEN Flatten(b.queue)
    ELSE IF b.kind = RING_BUFFER THEN b.data ELSE <<>>

\* writeSilence(outs) of util.js (not part of the sources at hand): every
\* position of every output array becomes 0
WriteSilence(outs) == [j \in DOMAIN outs |-> [k \in DOMAIN outs[j] |-> 0]]

(* ------------------------------ state ---------------------------------- *)
VARIABLES
    backend,            \* "ScriptProcessorBackend" or "AudioWorkletBackend"
    bufferType,         \* RING_BUFFER or FIFO_QUEUE
    nChannels,
    state,              \* adapter: this.state
    bufferThreshold,    \* adapter: this.bufferThreshold
    buffer,             \* adapter: this._buffer
    bufferLength,       \* AudioWorkletBackend.bufferLength (0 and unused otherwise)
    currentBufferFill,  \* AudioWorkletBackend._currentBufferFill
    toProc,             \* messages posted to the processor's port, oldest first
    toMain,             \* messages posted by the processor, oldest first
    lastOp,             \* <<who, what>>: the operation the last step ran
    arg,                \* its numeric argument (0 when it has none)
    thrown,             \* whether it threw
    result,             \* what it returned
    emitted,            \* the state-change notifications it emitted
    output,             \* a pull's output arrays, per channel
    clearedPlaying,     \* history: "cleared" once a clear emptied the buffer
                        \* in state PLAYING, "pulled" once the pull after it
                        \* has run, "no" after a write or any other clear/pull
    written,            \* history (SpecQueue): frames written, per channel
    readOut,            \* history (SpecQueue): frames returned by reads
    playingNotes,       \* history (SpecScenario): PLAYING notifications so far
    starvedNotes,       \* history (SpecScenario): STARVED notifications so far
    options,            \* createNode: the arguments of the call
    createLog,          \* createNode: the stages it has gone through, in order
    hooks,              \* FeederNode: the onBackend* hooks invoked, in order
    resamplerIn,        \* batches handed to resampler.processBatch, unprocessed
    fillCallbacks,      \* AudioWorkletBackend: _bufferFillCallbacks,
                        \* _nextCallbackId, and the callbacks the last
                        \* message invoked
    toProcDirect,       \* messages in the resampler's direct port to the
                        \* processor
    requestedThreshold  \* history (SpecThreshold): the threshold of the
                        \* construction or of the last accepted call

config == <<backend, bufferType, nChannels>>
adapter == <<state, bufferThreshold, buffer>>
mainSide == <<bufferLength, currentBufferFill>>
ports == <<toProc, toMain>>
observed == <<lastOp, arg, thrown, result, emitted, output>>
queueHistory == <<written, readOut>>
noteHistory == <<playingNotes, starvedNotes>>
nodeSide == <<options, createLog, hooks, resamplerIn>>
nodeSideRest == <<options, createLog, hooks>>
protocolSide == <<fillCallbacks, toProcDirect, requestedThreshold>>
vars == <<config, adapter, mainSide, ports, observed, clearedPlaying,
          queueHistory, noteHistory, nodeSide, protocolSide>>

SCRIPT == "ScriptProcessorBackend"
WORKLET == "AudioWorkletBackend"

NoResult == [kind |-> "none"]
Number(n) == [kind |-> "number", val |-> n]

\* the frames of one feed in Spec: sample i of the interleaved data is i
Ramp(n) == [i \in 1..(n * nChannels) |-> i]

\* the output arrays the platform hands to a pull: BatchSize positions per
\* channel, holding `fill`
FreshOutputs(fill) == [j \in 1..nChannels |-> [k \in 1..BatchSize |-> fill]]

\* channel j of interleaved samples
Channel(samples, j) ==
    [k \in 1..(Len(samples) \div nChannels) |-> samples[(k - 1) * nChannels + j]]

\* the history of clears: what a clear and a pull leave in clearedPlaying
AfterClear(st) == IF st = PLAYING THEN "cleared" ELSE "no"
AfterPull(h) == IF h = "cleared" THEN "pulled" ELSE "no"

\* what a step that is no pull and emits nothing leaves in the observations
Observe(op, a, thr, res) ==
    /\ lastOp' = op
    /\ arg' = a
    /\ thrown' = thr
    /\ result' = res
    /\ emitted' = <<>>
    /\ output' = <<>>

(* ---------------------- ScriptProcessorBackend ------------------------- *)
\* _updateState() that reports the state at every pull, changed or not: the
\* fault C2 excludes
SPUpdateStateRenotify(st, buf, threshold) ==
    LET new == CASE st = UNINITIALIZED -> st
                 [] st = PLAYING ->
                      IF GetNReadableSamples(buf) = 0 THEN STARVED ELSE st
                 [] st \in {READY, STARVED} ->
                      IF GetNReadableSamples(buf) >= threshold THEN PLAYING ELSE st
                 [] OTHER -> st
    IN  [state |-> new, notes |-> <<new>>]

\* _updateState() that asks for more than the threshold before it plays: the
\* fault C27 excludes
SPUpdateStateStrict(st, buf, threshold) ==
    LET new == CASE st = UNINITIALIZED -> st
                 [] st = PLAYING ->
                      IF GetNReadableSamples(buf) = 0 THEN STARVED ELSE st
                 [] st \in {READY, STARVED} ->
                      IF GetNReadableSamples(buf) > threshold THEN PLAYING ELSE st
                 [] OTHER -> st
    IN  [state |-> new, notes |-> IF new # st THEN <<new>> ELSE <<>>]

\* _updateState(): the new state and the calls of onStateChange
SPUpdateState(st, buf, threshold) ==
    LET new == CASE st = UNINITIALIZED -> st
                 [] st = PLAYING ->
                      IF GetNReadableSamples(buf) = 0 THEN STARVED ELSE st
                 [] st \in {READY, STARVED} ->
                      IF GetNReadableSamples(buf) >= threshold THEN PLAYING ELSE st
                 [] OTHER -> st
    IN  [state |-> new, notes |-> IF new # st THEN <<new>> ELSE <<>>]

\* _playNext() that runs the state update again after the read: the fault C4
\* excludes
SPPlayNextUpdatesTwice(st, buf, threshold, outs) ==
    LET u == SPUpdateState(st, buf, threshold)
    IN  IF u.state = PLAYING
        THEN LET r == BufferRead(buf, BatchSize, outs)
                 v == SPUpdateState(u.state, r.buf, threshold)
             IN  [state |-> v.state, notes |-> u.notes \o v.notes,
                  buf |-> r.buf, out |-> r.out]
        ELSE [state |-> u.state, notes |-> u.notes, buf |-> buf,
              out |-> WriteSilence(outs)]

\* _playNext(audioProcessingEvent): [state, notes, buf, out]
SPPlayNextResult(st, buf, threshold, outs) ==
    LET u == SPUpdateState(st, buf, threshold)
    IN  IF u.state = PLAYING
        THEN LET r == BufferRead(buf, BatchSize, outs)
             IN  [state |-> u.state, notes |-> u.notes, buf |-> r.buf, out |-> r.out]
        ELSE [state |-> u.state, notes |-> u.notes, buf |-> buf,
              out |-> WriteSilence(outs)]

\* setBufferThreshold(threshold): does the validation throw?
SPThresholdRejected(threshold, buf) ==
    threshold < 0 \/ threshold > BufferLengthOf(buf)

\* setBufferThreshold(threshold): the threshold in effect afterwards
SPThresholdAfter(threshold, buf, old) ==
    IF SPThresholdRejected(threshold, buf) THEN old ELSE threshold

(* ------------------------- WorkletProcessor ---------------------------- *)
StateChange(st) == [command |-> "stateChange", state |-> st]

\* the callbackId of a message: undefined, or a number
NoCallbackId == <<>>
CallbackId(k) == <<k>>

BufferFillUpdate(fill, callbackId) ==
    [command |-> "bufferFillUpdate", bufferFill |-> fill, callbackId |-> callbackId]

BufferLengthChange(len) == [command |-> "bufferLengthChange", bufferLength |-> len]

\* _updateState() with a strict comparison against the threshold: the fault
\* C1 excludes
WPUpdateStateStrict(st, buf, threshold) ==
    LET new == CASE st = UNINITIALIZED -> st
                 [] st = PLAYING ->
                      IF GetNReadableSamples(buf) = 0 THEN STARVED ELSE st
                 [] st \in {READY, STARVED} ->
                      IF GetNReadableSamples(buf) > threshold THEN PLAYING ELSE st
                 [] OTHER -> st
    IN  [state |-> new, notes |-> IF new # st THEN <<new>> ELSE <<>>]

\* _updateState() that re-arms to READY when the buffer drains: the fault C21
\* excludes
WPUpdateStateRearm(st, buf, threshold) ==
    LET new == CASE st = UNINITIALIZED -> st
                 [] st = PLAYING ->
                      IF GetNReadableSamples(buf) = 0 THEN READY ELSE st
                 [] st \in {READY, STARVED} ->
                      IF GetNReadableSamples(buf) >= threshold THEN PLAYING ELSE st
                 [] OTHER -> st
    IN  [state |-> new, notes |-> IF new # st THEN <<new>> ELSE <<>>]

\* _updateState() that notifies at every pull that finds or leaves the
\* processor STARVED: the fault C26 excludes
WPUpdateStateRenotify(st, buf, threshold) ==
    LET new == CASE st = UNINITIALIZED -> st
                 [] st = PLAYING ->
                      IF GetNReadableSamples(buf) = 0 THEN STARVED ELSE st
                 [] st \in {READY, STARVED} ->
                      IF GetNReadableSamples(buf) >= threshold THEN PLAYING ELSE st
                 [] OTHER -> st
    IN  [state |-> new,
         notes |-> IF new # st \/ new = STARVED THEN <<new>> ELSE <<>>]

\* _updateState(): the new state and the states passed to _notifyStateChange
WPUpdateState(st, buf, threshold) ==
    LET new == CASE st = UNINITIALIZED -> st
                 [] st = PLAYING ->
                      IF GetNReadableSamples(buf) = 0 THEN STARVED ELSE st
                 [] st \in {READY, STARVED} ->
                      IF GetNReadableSamples(buf) >= threshold THEN PLAYING ELSE st
                 [] OTHER -> st
    IN  [state |-> new, notes |-> IF new # st THEN <<new>> ELSE <<>>]

\* process() that picks read or silence by the state before the update: the
\* fault C3 excludes
WPProcessStale(st, buf, threshold, outs) ==
    LET u == WPUpdateState(st, buf, threshold)
    IN  IF st = PLAYING
        THEN LET r == BufferRead(buf, BatchSize, outs)
             IN  [state |-> u.state, notes |-> u.notes, buf |-> r.buf, out |-> r.out]
        ELSE [state |-> u.state, notes |-> u.notes, buf |-> buf,
              out |-> WriteSilence(outs)]

\* process(inputs, outputs, parameters): [state, notes, buf, out]
WPProcessResult(st, buf, threshold, outs) ==
    LET u == WPUpdateState(st, buf, threshold)
    IN  IF u.state = PLAYING
        THEN LET r == BufferRead(buf, BatchSize, outs)
             IN  [state |-> u.state, notes |-> u.notes, buf |-> r.buf, out |-> r.out]
        ELSE [state |-> u.state, notes |-> u.notes, buf |-> buf,
              out |-> WriteSilence(outs)]

\* _sendBufferFill() that reports the buffer's length for its fill: the fault
\* C20 excludes
WPSendBufferLength(buf, callbackId) ==
    IF buf.kind = Undefined THEN <<>>
    ELSE <<BufferFillUpdate(BufferLengthOf(buf), callbackId)>>

\* _sendBufferFill(callbackId): the messages posted
WPSendBufferFill(buf, callbackId) ==
    IF buf.kind = Undefined THEN <<>>
    ELSE <<BufferFillUpdate(GetNReadableSamples(buf), callbackId)>>

\* _feed(float32Array): the buffer afterwards and the messages posted
WPFeed(buf, float32Array) ==
    LET w == BufferWrite(buf, float32Array)
    IN  [buf |-> w.buf,
         posts |-> (IF w.didResize THEN <<BufferLengthChange(w.bufferLength)>> ELSE <<>>)
                   \o WPSendBufferFill(w.buf, NoCallbackId)]

\* _onMessage(e): the processor afterwards, the messages it posted, whether
\* the handler threw
WPOnMessageResult(msg, st, threshold, buf) ==
    LET same == [state |-> st, threshold |-> threshold, buf |-> buf,
                 posts |-> <<>>, thrown |-> FALSE]
    IN  CASE msg.command = "init" ->
               [same EXCEPT !.buf = NewBuffer(msg.bufferType, msg.bufferLength,
                                              msg.nChannels),
                            !.threshold = msg.bufferThreshold,
                            !.state = READY,
                            !.posts = <<StateChange(READY)>>]
          [] msg.command = "feed" ->
               IF buf.kind = Undefined THEN [same EXCEPT !.thrown = TRUE]
               ELSE LET f == WPFeed(buf, msg.data)
                    IN  [same EXCEPT !.buf = f.buf, !.posts = f.posts]
          [] msg.command = "setBufferThreshold" ->
               [same EXCEPT !.threshold = msg.threshold]
          [] msg.command = "connect" -> same
          [] msg.command = "getBufferFill" ->
               [same EXCEPT !.posts = WPSendBufferFill(buf, msg.callbackId)]
          [] msg.command = "clearBuffer" ->
               IF buf.kind = Undefined THEN same
               ELSE [same EXCEPT !.buf = BufferClear(buf)]
          [] OTHER -> [same EXCEPT !.thrown = TRUE]

(* ------------------------ AudioWorkletBackend -------------------------- *)
\* the init message createAudioWorklet posts before it builds the backend
InitMessage(nCh, len, threshold, type) ==
    [command |-> "init", nChannels |-> nCh, bufferLength |-> len,
     bufferThreshold |-> threshold, bufferType |-> type]

\* setBufferThreshold(threshold): does the validation throw?
AWThresholdRejected(threshold, len) == threshold < 0 \/ threshold > len

\* setBufferThreshold() that posts before it validates: the fault C9 excludes
AWThresholdPostsAlways(threshold, len) ==
    <<[command |-> "setBufferThreshold", threshold |-> threshold]>>

\* setBufferThreshold() that takes a threshold of 0 for no threshold and
\* posts nothing: the fault C28 excludes
AWThresholdSkipsZero(threshold, len) ==
    IF AWThresholdRejected(threshold, len) \/ threshold = 0 THEN <<>>
    ELSE <<[command |-> "setBufferThreshold", threshold |-> threshold]>>

\* setBufferThreshold(threshold): the messages posted
AWThresholdPosts(threshold, len) ==
    IF AWThresholdRejected(threshold, len) THEN <<>>
    ELSE <<[command |-> "setBufferThreshold", threshold |-> threshold]>>

\* _onMessage(e) without the final else: an unknown command is dropped, the
\* fault C18 excludes
AWOnMessageDropsUnknown(msg, len, fill) ==
    LET same == [bufferLength |-> len, currentBufferFill |-> fill,
                 hook |-> <<>>, thrown |-> FALSE]
    IN  CASE msg.command = "bufferLengthChange" ->
               [same EXCEPT !.bufferLength = msg.bufferLength]
          [] msg.command = "stateChange" -> [same EXCEPT !.hook = <<msg.state>>]
          [] msg.command = "bufferFillUpdate" ->
               [same EXCEPT !.currentBufferFill = msg.bufferFill]
          [] OTHER -> same

\* _onMessage(e): bufferLength and _currentBufferFill afterwards, the state
\* handed to onStateChange, whether the handler threw
AWOnMessageResult(msg, len, fill) ==
    LET same == [bufferLength |-> len, currentBufferFill |-> fill,
                 hook |-> <<>>, thrown |-> FALSE]
    IN  CASE msg.command = "bufferLengthChange" ->
               [same EXCEPT !.bufferLength = msg.bufferLength]
          [] msg.command = "stateChange" -> [same EXCEPT !.hook = <<msg.state>>]
          [] msg.command = "bufferFillUpdate" ->
               [same EXCEPT !.currentBufferFill = msg.bufferFill]
          [] OTHER -> [same EXCEPT !.thrown = TRUE]

\* is this callbackId truthy, as `e.data.callbackId &&` asks?
Truthy(callbackId) == callbackId # NoCallbackId /\ callbackId[1] # 0

\* the bufferFillUpdate branch that invokes the pending callback and leaves it
\* in the table: the fault C24 excludes
AWResolveKeepsCallback(msg, cb) ==
    IF msg.command = "bufferFillUpdate" /\ Truthy(msg.callbackId)
       /\ msg.callbackId[1] \in cb.table
    THEN [cb EXCEPT !.invoked = Append(@, [id |-> msg.callbackId[1],
                                           fill |-> msg.bufferFill])]
    ELSE cb

\* _onMessage(e), the bufferFillUpdate branch after the fill is stored: a
\* callback pending under the message's callbackId is called with the fill
\* and deleted
AWResolveCallback(msg, cb) ==
    IF msg.command = "bufferFillUpdate" /\ Truthy(msg.callbackId)
       /\ msg.callbackId[1] \in cb.table
    THEN [cb EXCEPT !.table = @ \ {msg.callbackId[1]},
                    !.invoked = Append(@, [id |-> msg.callbackId[1],
                                           fill |-> msg.bufferFill])]
    ELSE cb

(* ----------------------------- FeederNode ------------------------------ *)
\* currentFill / maxFill as JavaScript computes it
Divide(a, b) ==
    IF b = 0
    THEN IF a = 0 THEN [kind |-> NaN] ELSE [kind |-> "Infinity"]
    ELSE [kind |-> "ratio", num |-> a, den |-> b]

\* Math.max(0, x): NaN stays NaN
MathMax0(x) ==
    IF x.kind = "ratio" /\ x.num < 0 THEN [kind |-> "ratio", num |-> 0, den |-> 1] ELSE x

\* Math.min(1, x): NaN stays NaN
MathMin1(x) ==
    IF x.kind = "Infinity" \/ (x.kind = "ratio" /\ x.num > x.den)
    THEN [kind |-> "ratio", num |-> 1, den |-> 1]
    ELSE x

\* getBufferHealth(), from the fill getCurrentBufferFill() returned and the
\* backend's bufferLength
BufferHealth(currentFill, maxFill) == MathMin1(MathMax0(Divide(currentFill, maxFill)))

\* this._backend.bufferLength
BackendBufferLength ==
    IF backend = SCRIPT THEN BufferLengthOf(buffer) ELSE bufferLength

(* ------------------------------ inputs --------------------------------- *)
\* frames in one feed; a feed that crosses to the processor carries one
FeedSizes == {1, 2}
WorkletFeedSizes == {1}

\* thresholds a caller passes to setBufferThreshold
ThresholdArgs == {0 - 1, 0, InitBufferLength, InitBufferLength + 1}

\* thresholds createNode accepts for the configured buffer length
InitThresholds == {0, InitBufferLength}

\* the messages of this command in a port
Posted(port, command) == {i \in DOMAIN port : port[i].command = command}

OutputFills == {0, Stale}

RECURSIVE FramesInFlight(_)
FramesInFlight(msgs) ==
    IF msgs = <<>> THEN 0
    ELSE (IF Head(msgs).command = "feed"
          THEN Len(Head(msgs).data) \div nChannels ELSE 0)
         + FramesInFlight(Tail(msgs))

BufferedFrames == IF buffer.kind = Undefined THEN 0 ELSE GetNReadableSamples(buffer)

(* ------------------------ steps: script backend ------------------------ *)
\* a processed batch reaches backend.feed(float32Array)
SPFeedStep(n) ==
    /\ backend = SCRIPT
    /\ BufferedFrames + n <= MaxFill
    /\ buffer' = BufferWrite(buffer, Ramp(n)).buf
    /\ clearedPlaying' = "no"
    /\ Observe(<<"backend", "feed">>, n, FALSE, NoResult)
    /\ UNCHANGED <<config, state, bufferThreshold, mainSide, ports>>

SPClearBufferStep ==
    /\ backend = SCRIPT
    /\ buffer' = BufferClear(buffer)
    /\ clearedPlaying' = AfterClear(state)
    /\ Observe(<<"backend", "clearBuffer">>, 0, FALSE, NoResult)
    /\ UNCHANGED <<config, state, bufferThreshold, mainSide, ports>>

SPGetCurrentBufferFillStep ==
    /\ backend = SCRIPT
    /\ Observe(<<"backend", "getCurrentBufferFill">>, 0, FALSE,
               Number(GetNReadableSamples(buffer)))
    /\ UNCHANGED <<config, adapter, mainSide, ports, clearedPlaying>>

SPSetBufferThresholdStep(t) ==
    /\ backend = SCRIPT
    /\ bufferThreshold' = SPThresholdAfter(t, buffer, bufferThreshold)
    /\ Observe(<<"backend", "setBufferThreshold">>, t,
               SPThresholdRejected(t, buffer), NoResult)
    /\ UNCHANGED <<config, state, buffer, mainSide, ports, clearedPlaying>>

\* the ScriptProcessorNode fires onaudioprocess
SPPlayNextStep ==
    /\ backend = SCRIPT
    /\ \E fill \in OutputFills :
         LET r == SPPlayNextResult(state, buffer, bufferThreshold, FreshOutputs(fill))
         IN  /\ state' = r.state
             /\ buffer' = r.buf
             /\ emitted' = r.notes
             /\ output' = r.out
    /\ lastOp' = <<"adapter", "pull">>
    /\ arg' = 0
    /\ thrown' = FALSE
    /\ result' = NoResult
    /\ clearedPlaying' = AfterPull(clearedPlaying)
    /\ UNCHANGED <<config, bufferThreshold, mainSide, ports>>

(* ----------------------- steps: worklet backend ------------------------ *)
\* a processed batch reaches backend.feed(float32Array): posted to the processor
AWFeedStep(n) ==
    /\ backend = WORKLET
    /\ Len(toProc) + Len(toMain) < MaxQueue
    /\ BufferedFrames + FramesInFlight(toProc) + n <= MaxFill
    /\ toProc' = Append(toProc, [command |-> "feed", data |-> Ramp(n)])
    /\ Observe(<<"backend", "feed">>, n, FALSE, NoResult)
    /\ UNCHANGED <<config, adapter, mainSide, toMain, clearedPlaying>>

AWClearBufferStep ==
    /\ backend = WORKLET
    /\ Len(toProc) + Len(toMain) < MaxQueue
    /\ toProc' = Append(toProc, [command |-> "clearBuffer"])
    /\ Observe(<<"backend", "clearBuffer">>, 0, FALSE, NoResult)
    /\ UNCHANGED <<config, adapter, mainSide, toMain, clearedPlaying>>

AWGetCurrentBufferFillStep ==
    /\ backend = WORKLET
    /\ Len(toProc) + Len(toMain) < MaxQueue
    /\ toProc' = Append(toProc, [command |-> "getBufferFill", callbackId |-> NoCallbackId])
    /\ Observe(<<"backend", "getCurrentBufferFill">>, 0, FALSE, Number(currentBufferFill))
    /\ UNCHANGED <<config, adapter, mainSide, toMain, clearedPlaying>>

AWSetBufferThresholdStep(t) ==
    /\ backend = WORKLET
    /\ Len(toProc) + Len(toMain) < MaxQueue
    /\ toProc' = toProc \o AWThresholdPosts(t, bufferLength)
    /\ Observe(<<"backend", "setBufferThreshold">>, t,
               AWThresholdRejected(t, bufferLength), NoResult)
    /\ UNCHANGED <<config, adapter, mainSide, toMain, clearedPlaying>>

\* the main thread takes the oldest message of the processor
AWOnMessageStep ==
    /\ backend = WORKLET
    /\ toMain # <<>>
    /\ LET msg == Head(toMain)
           r == AWOnMessageResult(msg, bufferLength, currentBufferFill)
       IN  /\ bufferLength' = r.bufferLength
           /\ currentBufferFill' = r.currentBufferFill
           /\ Observe(<<"backend", msg.command>>, 0, r.thrown, NoResult)
    /\ toMain' = Tail(toMain)
    /\ UNCHANGED <<config, adapter, toProc, clearedPlaying>>

\* the processor takes the oldest message of the main thread
WPOnMessageStep ==
    /\ backend = WORKLET
    /\ toProc # <<>>
    /\ LET msg == Head(toProc)
           r == WPOnMessageResult(msg, state, bufferThreshold, buffer)
           notes == SelectSeq(r.posts, LAMBDA m : m.command = "stateChange")
       IN  /\ Len(toProc) - 1 + Len(toMain) + Len(r.posts) <= MaxQueue
           /\ state' = r.state
           /\ bufferThreshold' = r.threshold
           /\ buffer' = r.buf
           /\ toMain' = toMain \o r.posts
           /\ lastOp' = <<"processor", msg.command>>
           /\ thrown' = r.thrown
           /\ emitted' = [i \in 1..Len(notes) |-> notes[i].state]
           /\ clearedPlaying' =
                 CASE msg.command = "clearBuffer" -> AfterClear(state)
                   [] msg.command = "feed" -> "no"
                   [] OTHER -> clearedPlaying
    /\ toProc' = Tail(toProc)
    /\ arg' = 0
    /\ result' = NoResult
    /\ output' = <<>>
    /\ UNCHANGED <<config, mainSide>>

\* the audio thread calls process()
WPProcessStep ==
    /\ backend = WORKLET
    /\ \E fill \in OutputFills :
         LET r == WPProcessResult(state, buffer, bufferThreshold, FreshOutputs(fill))
         IN  /\ Len(toProc) + Len(toMain) + Len(r.notes) <= MaxQueue
             /\ state' = r.state
             /\ buffer' = r.buf
             /\ emitted' = r.notes
             /\ toMain' = toMain \o [i \in 1..Len(r.notes) |-> StateChange(r.notes[i])]
             /\ output' = r.out
    /\ lastOp' = <<"adapter", "pull">>
    /\ arg' = 0
    /\ thrown' = FALSE
    /\ result' = NoResult
    /\ clearedPlaying' = AfterPull(clearedPlaying)
    /\ UNCHANGED <<config, bufferThreshold, mainSide, toProc>>

\* the processor takes the oldest message of the resampler's direct port,
\* with the same handler
WPOnDirectMessageStep ==
    /\ backend = WORKLET
    /\ toProcDirect # <<>>
    /\ LET msg == Head(toProcDirect)
           r == WPOnMessageResult(msg, state, bufferThreshold, buffer)
           notes == SelectSeq(r.posts, LAMBDA m : m.command = "stateChange")
       IN  /\ Len(toProc) + Len(toMain) + Len(r.posts) <= MaxQueue
           /\ state' = r.state
           /\ bufferThreshold' = r.threshold
           /\ buffer' = r.buf
           /\ toMain' = toMain \o r.posts
           /\ lastOp' = <<"processor", msg.command>>
           /\ thrown' = r.thrown
           /\ emitted' = [i \in 1..Len(notes) |-> notes[i].state]
           /\ clearedPlaying' =
                 CASE msg.command = "clearBuffer" -> AfterClear(state)
                   [] msg.command = "feed" -> "no"
                   [] OTHER -> clearedPlaying
    /\ toProcDirect' = Tail(toProcDirect)
    /\ arg' = 0
    /\ result' = NoResult
    /\ output' = <<>>
    /\ UNCHANGED <<config, mainSide, toProc>>

(* -------------------------- steps: FeederNode -------------------------- *)
\* getBufferHealth(): getCurrentBufferFill() of the backend, then the division
GetBufferHealthStep ==
    /\ IF backend = SCRIPT
       THEN /\ result' = BufferHealth(GetNReadableSamples(buffer), BackendBufferLength)
            /\ UNCHANGED toProc
       ELSE /\ Len(toProc) + Len(toMain) < MaxQueue
            /\ toProc' = Append(toProc, [command |-> "getBufferFill",
                                         callbackId |-> NoCallbackId])
            /\ result' = BufferHealth(currentBufferFill, BackendBufferLength)
    /\ lastOp' = <<"FeederNode", "getBufferHealth">>
    /\ arg' = 0
    /\ thrown' = FALSE
    /\ emitted' = <<>>
    /\ output' = <<>>
    /\ UNCHANGED <<config, adapter, mainSide, toMain, clearedPlaying>>

(* ------------------------- Spec: the program --------------------------- *)
\* what the calls on a constructed backend leave alone
histories == <<queueHistory, noteHistory, nodeSide, protocolSide>>

NoObservation ==
    /\ lastOp = <<"none", "none">>
    /\ arg = 0
    /\ thrown = FALSE
    /\ result = NoResult
    /\ emitted = <<>>
    /\ output = <<>>

NoHistory ==
    /\ clearedPlaying = "no"
    /\ written = <<>>
    /\ readOut = <<>>
    /\ playingNotes = 0
    /\ starvedNotes = 0

\* no createNode call is followed: the backend is taken as constructed
NoOptions == [given |-> FALSE]

\* the callback table of a new AudioWorkletBackend: an empty Map, the next
\* id 1
NoCallbacks == [table |-> {}, nextCallbackId |-> 1, invoked |-> <<>>]

NoProtocol ==
    /\ fillCallbacks = NoCallbacks
    /\ toProcDirect = <<>>
    /\ requestedThreshold = Undefined

NoNode ==
    /\ options = NoOptions
    /\ createLog = <<>>
    /\ hooks = <<>>
    /\ resamplerIn = <<>>

\* new ScriptProcessorBackend(context, nChannels, batchSize, bufferLength,
\* bufferThreshold, bufferType)
SPConstructed(threshold) ==
    /\ backend = SCRIPT
    /\ state = READY
    /\ bufferThreshold = threshold
    /\ buffer = NewBuffer(bufferType, InitBufferLength, nChannels)
    /\ bufferLength = 0
    /\ currentBufferFill = 0
    /\ toProc = <<>>
    /\ toMain = <<>>

\* createAudioWorklet(...): the processor is constructed, init is posted, the
\* backend is constructed
AWConstructed(threshold) ==
    /\ backend = WORKLET
    /\ state = UNINITIALIZED
    /\ bufferThreshold = Undefined
    /\ buffer = NoBuffer
    /\ bufferLength = InitBufferLength
    /\ currentBufferFill = 0
    /\ toProc = <<InitMessage(nChannels, InitBufferLength, threshold, bufferType)>>
    /\ toMain = <<>>

Init ==
    /\ bufferType \in {RING_BUFFER, FIFO_QUEUE}
    /\ nChannels \in {1, 2}
    /\ \E threshold \in InitThresholds :
         SPConstructed(threshold) \/ AWConstructed(threshold)
    /\ NoObservation
    /\ NoHistory
    /\ NoProtocol
    /\ NoNode

SPFeed == \E n \in FeedSizes : SPFeedStep(n) /\ UNCHANGED histories
SPClearBuffer == SPClearBufferStep /\ UNCHANGED histories
SPGetCurrentBufferFill == SPGetCurrentBufferFillStep /\ UNCHANGED histories
SPSetBufferThreshold == \E t \in ThresholdArgs : SPSetBufferThresholdStep(t) /\ UNCHANGED histories
SPPlayNext == SPPlayNextStep /\ UNCHANGED histories
AWFeed == \E n \in WorkletFeedSizes : AWFeedStep(n) /\ UNCHANGED histories
AWClearBuffer == AWClearBufferStep /\ UNCHANGED histories
AWGetCurrentBufferFill == AWGetCurrentBufferFillStep /\ UNCHANGED histories
AWSetBufferThreshold == \E t \in ThresholdArgs : AWSetBufferThresholdStep(t) /\ UNCHANGED histories
AWOnMessage == AWOnMessageStep /\ UNCHANGED histories
WPOnMessage == WPOnMessageStep /\ UNCHANGED histories
WPProcess == WPProcessStep /\ UNCHANGED histories
GetBufferHealth == GetBufferHealthStep /\ UNCHANGED histories

Next ==
    \/ SPFeed
    \/ SPClearBuffer
    \/ SPGetCurrentBufferFill
    \/ SPSetBufferThreshold
    \/ SPPlayNext
    \/ AWFeed
    \/ AWClearBuffer
    \/ AWGetCurrentBufferFill
    \/ AWSetBufferThreshold
    \/ AWOnMessage
    \/ WPOnMessage
    \/ WPProcess
    \/ GetBufferHealth

Spec == Init /\ [][Next]_vars

(* ------------- SpecScenario: fill to the threshold, then drain --------- *)
\* how often a pull's notifications carry state s
Count(notes, s) == Cardinality({i \in DOMAIN notes : notes[i] = s})

CountNotes ==
    /\ playingNotes' = playingNotes + Count(emitted', PLAYING)
    /\ starvedNotes' = starvedNotes + Count(emitted', STARVED)
    /\ UNCHANGED <<queueHistory, nodeSide, protocolSide>>

\* an adapter that has reached READY with a positive threshold and holds nothing
ScenarioInit ==
    /\ bufferType \in {RING_BUFFER, FIFO_QUEUE}
    /\ nChannels \in {1, 2}
    /\ backend \in {SCRIPT, WORKLET}
    /\ state = READY
    /\ bufferThreshold \in 1..MaxFill
    /\ buffer = NewBuffer(bufferType, InitBufferLength, nChannels)
    /\ bufferLength = IF backend = WORKLET THEN InitBufferLength ELSE 0
    /\ currentBufferFill = 0
    /\ toProc = <<>>
    /\ toMain = <<>>
    /\ NoObservation
    /\ NoHistory
    /\ NoProtocol
    /\ NoNode

\* frames are fed until the adapter plays, none afterwards
ScenarioSPFeed ==
    /\ state = READY
    /\ \E n \in FeedSizes : SPFeedStep(n)
    /\ UNCHANGED histories

ScenarioAWFeed ==
    /\ state = READY
    /\ \E n \in WorkletFeedSizes : AWFeedStep(n)
    /\ UNCHANGED histories

\* a feed still in flight when the adapter plays is not delivered
ScenarioWPOnMessage ==
    /\ toProc # <<>>
    /\ Head(toProc).command = "feed" => state = READY
    /\ WPOnMessageStep
    /\ UNCHANGED histories

ScenarioAWOnMessage == AWOnMessageStep /\ UNCHANGED histories

ScenarioSPPlayNext ==
    /\ playingNotes < NoteCap
    /\ starvedNotes < NoteCap
    /\ SPPlayNextStep
    /\ CountNotes

ScenarioWPProcess ==
    /\ playingNotes < NoteCap
    /\ starvedNotes < NoteCap
    /\ WPProcessStep
    /\ CountNotes

ScenarioNext ==
    \/ ScenarioSPFeed
    \/ ScenarioAWFeed
    \/ ScenarioWPOnMessage
    \/ ScenarioAWOnMessage
    \/ ScenarioSPPlayNext
    \/ ScenarioWPProcess

SpecScenario == ScenarioInit /\ [][ScenarioNext]_vars

(* ------------------ SpecQueue: an AudioQueue on its own ---------------- *)
QueueWriteSizes == 0..2

\* the n frames of a write: sample j of the frame number f ever written is
\* (f - 1) * nChannels + j, so that no two samples written are equal
Frames(first, n) == [i \in 1..(n * nChannels) |-> (first - 1) * nChannels + i]

\* the arrays a caller of read() may supply
ReadChannels(n) == {Null, [j \in 1..nChannels |-> [k \in 1..n |-> Stale]]}

QueueInit ==
    /\ backend = SCRIPT
    /\ bufferType = FIFO_QUEUE
    /\ nChannels \in {1, 2}
    /\ state = READY
    /\ bufferThreshold = 0
    /\ buffer = NewAudioQueue(InitBufferLength, nChannels)
    /\ bufferLength = 0
    /\ currentBufferFill = 0
    /\ toProc = <<>>
    /\ toMain = <<>>
    /\ NoObservation
    /\ clearedPlaying = "no"
    /\ written = [j \in 1..nChannels |-> <<>>]
    /\ readOut = [j \in 1..nChannels |-> <<>>]
    /\ playingNotes = 0
    /\ starvedNotes = 0
    /\ NoNode
    /\ NoProtocol

\* what a read leaves in `result`: whether the caller supplied the arrays
ReadCall(supplied) == [kind |-> "read", supplied |-> supplied]

\* queue.write(float32Data)
QWrite ==
    \E n \in QueueWriteSizes :
       LET data == Frames(Len(written[1]) + 1, n)
           w == AQWrite(buffer, data)
       IN  /\ Len(written[1]) + n <= MaxHist
           /\ Len(buffer.queue) < MaxChunks
           /\ buffer' = w.buf
           /\ written' = [j \in 1..nChannels |-> written[j] \o Channel(data, j)]
           /\ lastOp' = <<"AudioQueue", "write">>
           /\ arg' = n
           /\ thrown' = FALSE
           /\ result' = [kind |-> "write", didResize |-> w.didResize,
                         bufferLength |-> w.bufferLength]
           /\ emitted' = <<>>
           /\ output' = <<>>
           /\ UNCHANGED <<config, state, bufferThreshold, mainSide, ports,
                          clearedPlaying, readOut, noteHistory, nodeSide, protocolSide>>

\* queue.read(nSamples, channels): the frames it returns are the first
\* min(nSamples, readable) positions of the arrays
QRead ==
    \E n \in 0..MaxHist : \E channels \in ReadChannels(n) :
       LET r == AQRead(buffer, n, channels)
           got == Min(n, AQGetNReadableSamples(buffer))
       IN  /\ buffer' = r.buf
           /\ output' = r.out
           /\ readOut' = [j \in 1..nChannels |-> readOut[j] \o SubSeq(r.out[j], 1, got)]
           /\ lastOp' = <<"AudioQueue", "read">>
           /\ arg' = n
           /\ thrown' = FALSE
           /\ result' = ReadCall(channels # Null)
           /\ emitted' = <<>>
           /\ UNCHANGED <<config, state, bufferThreshold, mainSide, ports,
                          clearedPlaying, written, noteHistory, nodeSide, protocolSide>>

\* queue.clear(): the histories start afresh
QClear ==
    /\ buffer' = AQClear(buffer)
    /\ written' = [j \in 1..nChannels |-> <<>>]
    /\ readOut' = [j \in 1..nChannels |-> <<>>]
    /\ Observe(<<"AudioQueue", "clear">>, 0, FALSE, NoResult)
    /\ UNCHANGED <<config, state, bufferThreshold, mainSide, ports,
                   clearedPlaying, noteHistory, nodeSide, protocolSide>>

QueueNext ==
    \/ QWrite
    \/ QRead
    \/ QClear

SpecQueue == QueueInit /\ [][QueueNext]_vars

(* ---------------- SpecCreate: createNode of index.js ------------------- *)
VALID_BATCH_SIZES == {128, 256, 512, 1024, 2048, 4096, 8192, 16384}
WORKLET_BATCH_SIZE == 128
SCRIPT_BATCH_SIZE == 512
DEFAULT_BUFFER_THRESHOLD == 4096
DEFAULT_BUFFER_LENGTH == 192000
MIN_BUFFER_LENGTH == 16384
MAX_SAMPLE_RATE == 192000
MAX_CONVERTER_TYPE == 4
\* ConverterType.SRC_SINC_FASTEST of libsamplerate-js
SRC_SINC_FASTEST == 2
\* context.sampleRate
ContextSampleRate == 48000

\* a member of `options`, or an argument: left out, or given with a value
Absent == [set |-> FALSE]
Opt(v) == [set |-> TRUE, val |-> v]

\* `o || d` for a number: undefined and 0 give the default
OrDefault(o, d) == IF o.set /\ o.val # 0 THEN o.val ELSE d

\* `o || d` for a string: undefined and "" give the default
OrDefaultString(o, d) == IF o.set /\ o.val # "" THEN o.val ELSE d

\* `o === undefined ? d : o`
UnlessUndefined(o, d) == IF o.set THEN o.val ELSE d

\* the locals of createNode before validate() is called
Resolve(o) ==
    [nChannels |-> o.nChannels,
     batchSize |-> OrDefault(o.batchSize,
                             IF o.audioWorklet THEN WORKLET_BATCH_SIZE
                             ELSE SCRIPT_BATCH_SIZE),
     bufferThreshold |-> OrDefault(o.bufferThreshold, DEFAULT_BUFFER_THRESHOLD),
     bufferLength |-> OrDefault(o.bufferLength, DEFAULT_BUFFER_LENGTH),
     bufferType |-> OrDefaultString(o.bufferType, RING_BUFFER),
     converterType |-> UnlessUndefined(o.resampConverterType, SRC_SINC_FASTEST),
     inputSampleRate |-> OrDefault(o.inputSampleRate, ContextSampleRate)]

\* validate(...): does it throw?
ValidateThrows(r) ==
    \/ ~r.nChannels.set
    \/ r.nChannels.val < 1 \/ r.nChannels.val > 2
    \/ r.batchSize \notin VALID_BATCH_SIZES
    \/ r.bufferLength < MIN_BUFFER_LENGTH
    \/ r.bufferThreshold < 0
    \/ r.bufferThreshold > r.bufferLength
    \/ r.converterType < 0 \/ r.converterType > MAX_CONVERTER_TYPE
    \/ r.inputSampleRate < 1 \/ r.inputSampleRate > MAX_SAMPLE_RATE
    \/ r.bufferType \notin {RING_BUFFER, FIFO_QUEUE}

\* the calls of createNode that are tried
CallArgs ==
    [given : {TRUE},
     nChannels : {Absent} \cup {Opt(n) : n \in 0..3},
     batchSize : {Absent} \cup {Opt(n) : n \in {0, 100, 128}},
     bufferThreshold : {Absent} \cup {Opt(n) : n \in {0 - 1, 0, 16384, 16385}},
     bufferLength : {Absent} \cup {Opt(n) : n \in {0, 16383, 16384}},
     bufferType : {Absent, Opt(FIFO_QUEUE), Opt("bogus")},
     resampConverterType : {Absent} \cup {Opt(n) : n \in {0 - 1, 0, 5}},
     inputSampleRate : {Absent} \cup {Opt(n) : n \in {0 - 1, 0, 192000, 192001}},
     audioWorklet : BOOLEAN,
     webAssembly : BOOLEAN]

Pos(log, e) == IF \E i \in DOMAIN log : log[i] = e
               THEN CHOOSE i \in DOMAIN log : log[i] = e
               ELSE 0

Reached(e) == Pos(createLog, e) > 0

\* `await createBackend(...)` with one that starts the resampler at once: the
\* fault C16 excludes
ResamplerStartsWithBackend(log) == Pos(log, "createBackend") > 0

\* `await createBackend(...)`: createNode goes on once the backend is there
BackendAwaited(log) == Pos(log, "backendCreated") > 0

\* `await createResampler(...)`: createNode goes on once the resampler is there
ResamplerAwaited(log) == Pos(log, "resamplerCreated") > 0

\* the resampler createResampler makes
ResamplerKind(o) ==
    IF o.webAssembly THEN "WorkerResampler" ELSE "MainThreadResampler"

\* FeederNode._onBackendStateChange(state): the hook it calls
HookFor(st) ==
    CASE st = READY -> <<"onBackendReady">>
      [] st = PLAYING -> <<"onBackendPlaying">>
      [] st = STARVED -> <<"onBackendStarved">>
      [] OTHER -> <<>>

\* backend.onStateChange(state): FeederNode's handler once the FeederNode is
\* constructed, the empty method of AbstractBackend before
OnStateChange(bound, st) == IF bound THEN HookFor(st) ELSE <<>>

CreateInit ==
    /\ backend = "none"
    /\ bufferType = Undefined
    /\ nChannels = 0
    /\ state = UNINITIALIZED
    /\ bufferThreshold = Undefined
    /\ buffer = NoBuffer
    /\ bufferLength = 0
    /\ currentBufferFill = 0
    /\ toProc = <<>>
    /\ toMain = <<>>
    /\ NoObservation
    /\ NoHistory
    /\ NoProtocol
    /\ NoNode

\* createNode(context, nChannels, options) up to its first await
CreateNode ==
    /\ createLog = <<>>
    /\ \E o \in CallArgs :
         /\ options' = o
         /\ thrown' = ValidateThrows(Resolve(o))
         /\ createLog' = IF ValidateThrows(Resolve(o)) THEN <<"rejected">>
                         ELSE <<"createBackend">>
    /\ lastOp' = <<"index", "createNode">>
    /\ arg' = 0
    /\ result' = NoResult
    /\ emitted' = <<>>
    /\ output' = <<>>
    /\ UNCHANGED <<config, adapter, mainSide, ports, clearedPlaying,
                   queueHistory, noteHistory, hooks, resamplerIn,
                   protocolSide>>

\* createBackend(...) resolves: createAudioWorklet has posted init and built
\* the AudioWorkletBackend, or the ScriptProcessorBackend is constructed
BackendCreated ==
    /\ Reached("createBackend")
    /\ ~Reached("backendCreated")
    /\ LET r == Resolve(options)
       IN  /\ nChannels' = r.nChannels.val
           /\ bufferType' = r.bufferType
           /\ IF options.audioWorklet
              THEN /\ backend' = WORKLET
                   /\ toProc' = <<InitMessage(r.nChannels.val, r.bufferLength,
                                               r.bufferThreshold, r.bufferType)>>
                   /\ bufferLength' = r.bufferLength
                   /\ UNCHANGED adapter
              ELSE /\ backend' = SCRIPT
                   /\ state' = READY
                   /\ bufferThreshold' = r.bufferThreshold
                   /\ buffer' = NewBuffer(r.bufferType, r.bufferLength, r.nChannels.val)
                   /\ UNCHANGED <<toProc, bufferLength>>
    /\ createLog' = Append(createLog, "backendCreated")
    /\ Observe(<<"index", "createBackend">>, 0, FALSE, NoResult)
    /\ UNCHANGED <<currentBufferFill, toMain, clearedPlaying, queueHistory,
                   noteHistory, options, hooks, resamplerIn,
                   protocolSide>>

\* createResampler(...) is called
ResamplerStarted ==
    /\ BackendAwaited(createLog)
    /\ Reached("createBackend")
    /\ ~Reached("createResampler")
    /\ createLog' = Append(createLog, "createResampler")
    /\ Observe(<<"index", "createResampler">>, 0, FALSE, NoResult)
    /\ UNCHANGED <<config, adapter, mainSide, ports, clearedPlaying,
                   queueHistory, noteHistory, options, hooks, resamplerIn,
                   protocolSide>>

\* createResampler(...) resolves
ResamplerCreated ==
    /\ Reached("createResampler")
    /\ ~Reached("resamplerCreated")
    /\ createLog' = Append(createLog, "resamplerCreated")
    /\ Observe(<<"index", "resamplerCreated">>, 0, FALSE, NoResult)
    /\ UNCHANGED <<config, adapter, mainSide, ports, clearedPlaying,
                   queueHistory, noteHistory, options, hooks, resamplerIn,
                   protocolSide>>

\* new FeederNode(resampler, backend): what the constructor wires. The
\* channel is made for a worker resampler over a worklet backend; onProcessed
\* and onStateChange are assigned in every case
FeederNodeWiring(resamplerKind, backendKind) ==
    [kind |-> "wiring",
     channel |-> resamplerKind = "WorkerResampler" /\ backendKind = WORKLET,
     onProcessed |-> TRUE,
     onStateChange |-> TRUE]

\* new FeederNode(resampler, backend): the ports are handed out when both
\* sides are asynchronous, the callbacks are set
NodeConstructed ==
    /\ BackendAwaited(createLog)
    /\ ResamplerAwaited(createLog)
    /\ ~Reached("FeederNode")
    /\ toProc' = IF FeederNodeWiring(ResamplerKind(options), backend).channel
                 THEN Append(toProc, [command |-> "connect"])
                 ELSE toProc
    /\ createLog' = Append(createLog, "FeederNode")
    /\ Observe(<<"FeederNode", "constructor">>, 0, FALSE,
               FeederNodeWiring(ResamplerKind(options), backend))
    /\ UNCHANGED <<config, adapter, mainSide, toMain, clearedPlaying,
                   queueHistory, noteHistory, options, hooks, resamplerIn,
                   protocolSide>>

\* the processor handles a message while createNode runs
CreateWPOnMessage ==
    /\ WPOnMessageStep
    /\ UNCHANGED histories

\* the backend handles a message of the processor while or after createNode
\* runs; a stateChange goes to onStateChange
CreateAWOnMessage ==
    /\ AWOnMessageStep
    /\ hooks' = hooks \o (IF Head(toMain).command = "stateChange"
                           THEN OnStateChange(Reached("FeederNode"), Head(toMain).state)
                           ELSE <<>>)
    /\ UNCHANGED <<queueHistory, noteHistory, options, createLog, resamplerIn,
                   protocolSide>>

CreateNext ==
    \/ CreateNode
    \/ BackendCreated
    \/ ResamplerStarted
    \/ ResamplerCreated
    \/ NodeConstructed
    \/ CreateWPOnMessage
    \/ CreateAWOnMessage

SpecCreate == CreateInit /\ [][CreateNext]_vars

(* ------------- SpecNode: a FeederNode, its resampler, its backend ------ *)
\* what a caller may hand to feed(): a typed array of some element type, or
\* a plain array, which is no ArrayBuffer view
TypedArray(type, samples) == [view |-> TRUE, type |-> type, samples |-> samples]
PlainArray(samples) == [view |-> FALSE, type |-> "Array", samples |-> samples]

ArrayBufferIsView(d) == d.view

\* toFloat32(data) of util.js (not part of the sources at hand): a
\* Float32Array of the same length; the samples are kept as they are named
ToFloat32(d) == TypedArray("Float32Array", d.samples)

FeedData ==
    {TypedArray(t, Ramp(n)) : t \in {"Float32Array", "Int16Array"}, n \in FeedSizes}
      \cup {PlainArray(Ramp(n)) : n \in FeedSizes}

\* feed(data) that hands the data on before it looks at its type: the fault
\* C19 excludes
NodeFeedForwardsFirst(d, pending) ==
    [thrown |-> ~ArrayBufferIsView(d),
     resamplerIn |-> Append(pending, ToFloat32(d))]

\* FeederNode.feed(data): whether it throws, and the batches handed to
\* this._resampler.processBatch so far
NodeFeedResult(d, pending) ==
    IF ArrayBufferIsView(d)
    THEN [thrown |-> FALSE, resamplerIn |-> Append(pending, ToFloat32(d))]
    ELSE [thrown |-> TRUE, resamplerIn |-> pending]

\* AudioQueue.write(float32Data) with its type check
AQWriteCall(q, d) ==
    IF ~ArrayBufferIsView(d) THEN [thrown |-> TRUE, buf |-> q]
    ELSE [thrown |-> FALSE, buf |-> AQWrite(q, d.samples).buf]

\* is the resampler wired to the processor by a MessageChannel?
DirectChannel == FeederNodeWiring(ResamplerKind(options), backend).channel

FeedCall(d) == [kind |-> "feed", view |-> d.view, type |-> d.type]

\* the options createNode resolved for a node with this backend
NodeOptions(wasm, worklet) ==
    [given |-> TRUE, webAssembly |-> wasm, audioWorklet |-> worklet]

\* the state after new FeederNode(resampler, backend): over a worklet the
\* init message is posted, and the connect message when the resampler is a
\* worker too
NodeInit ==
    /\ bufferType \in {RING_BUFFER, FIFO_QUEUE}
    /\ nChannels \in {1, 2}
    /\ \E threshold \in InitThresholds, wasm \in BOOLEAN :
         \/ /\ SPConstructed(threshold)
            /\ options = NodeOptions(wasm, FALSE)
         \/ /\ backend = WORKLET
            /\ options = NodeOptions(wasm, TRUE)
            /\ state = UNINITIALIZED
            /\ bufferThreshold = Undefined
            /\ buffer = NoBuffer
            /\ bufferLength = InitBufferLength
            /\ currentBufferFill = 0
            /\ toProc = <<InitMessage(nChannels, InitBufferLength, threshold,
                                      bufferType)>>
                          \o (IF DirectChannel THEN <<[command |-> "connect"]>>
                              ELSE <<>>)
            /\ toMain = <<>>
    /\ NoObservation
    /\ NoHistory
    /\ NoProtocol
    /\ createLog = <<"createBackend", "backendCreated", "createResampler",
                     "resamplerCreated", "FeederNode">>
    /\ hooks = <<>>
    /\ resamplerIn = <<>>

\* node.feed(data)
NodeFeed ==
    /\ Len(resamplerIn) < MaxQueue
    /\ \E d \in FeedData :
         LET r == NodeFeedResult(d, resamplerIn)
         IN  /\ resamplerIn' = r.resamplerIn
             /\ Observe(<<"FeederNode", "feed">>, Len(d.samples) \div nChannels,
                        r.thrown, FeedCall(d))
    /\ UNCHANGED <<config, adapter, mainSide, ports, clearedPlaying,
                   queueHistory, noteHistory, options, createLog, hooks,
                   protocolSide>>

\* the resampler has processed its oldest batch and calls onProcessed, which
\* is _onResampleComplete: backend.feed(float32Array)
ResampleComplete ==
    /\ resamplerIn # <<>>
    /\ ~DirectChannel
    /\ resamplerIn' = Tail(resamplerIn)
    /\ \E n \in FeedSizes :
         IF backend = SCRIPT THEN SPFeedStep(n) ELSE n = 1 /\ AWFeedStep(n)
    /\ UNCHANGED <<queueHistory, noteHistory, options, createLog, hooks,
                   protocolSide>>

\* backend.feed(data) of the script backend over a FIFO queue with data that
\* is no typed array: AudioQueue.write refuses it
BackendFeedNotTyped ==
    /\ backend = SCRIPT
    /\ buffer.kind = FIFO_QUEUE
    /\ \E n \in FeedSizes :
         LET w == AQWriteCall(buffer, PlainArray(Ramp(n)))
         IN  /\ buffer' = w.buf
             /\ Observe(<<"AudioQueue", "write">>, n, w.thrown,
                        FeedCall(PlainArray(Ramp(n))))
    /\ UNCHANGED <<config, state, bufferThreshold, mainSide, ports,
                   clearedPlaying, histories>>

NodeSPPlayNext == SPPlayNextStep /\ UNCHANGED histories
NodeWPProcess == WPProcessStep /\ UNCHANGED histories
NodeWPOnMessage == WPOnMessageStep /\ UNCHANGED histories
NodeAWOnMessage == AWOnMessageStep /\ UNCHANGED histories

NodeNext ==
    \/ NodeFeed
    \/ ResampleComplete
    \/ BackendFeedNotTyped
    \/ NodeSPPlayNext
    \/ NodeWPProcess
    \/ NodeWPOnMessage
    \/ NodeAWOnMessage

SpecNode == NodeInit /\ [][NodeNext]_vars

(* ------- SpecHandoff: the worklet processor and its two ports ----------- *)
\* the direct port delivers once the processor has set its onmessage, which
\* the handler of connect does: the connect message is no longer in the port
DirectPortOpenAtOnce == DirectChannel

DirectPortOpen == DirectChannel /\ Posted(toProc, "connect") = {}

\* a node over a worklet backend, just constructed
HandoffInit == NodeInit /\ backend = WORKLET /\ nChannels = 1

\* the resampler's processed batch goes to the processor: through the
\* resampler's port of the channel when there is one (the worker resampler is
\* not part of the sources at hand), through onProcessed and backend.feed
\* otherwise
HandoffFeed ==
    /\ \E n \in WorkletFeedSizes :
         IF DirectChannel
         THEN /\ Len(toProcDirect) < MaxQueue
              /\ BufferedFrames + FramesInFlight(toProc)
                    + FramesInFlight(toProcDirect) + n <= MaxFill
              /\ toProcDirect' = Append(toProcDirect,
                                        [command |-> "feed", data |-> Ramp(n)])
              /\ Observe(<<"resampler", "postMessage">>, n, FALSE, NoResult)
              /\ UNCHANGED <<config, adapter, mainSide, ports, clearedPlaying>>
         ELSE AWFeedStep(n) /\ UNCHANGED toProcDirect
    /\ UNCHANGED <<queueHistory, noteHistory, nodeSide, fillCallbacks,
                   requestedThreshold>>

\* the processor takes a message of the direct port
HandoffWPOnDirectMessage ==
    /\ DirectPortOpen
    /\ WPOnDirectMessageStep
    /\ UNCHANGED <<queueHistory, noteHistory, nodeSide, fillCallbacks,
                   requestedThreshold>>

\* node.setBufferThreshold(threshold), node.getCurrentBufferFill() and
\* node.clearBuffer(): the backend's methods
HandoffSetBufferThreshold ==
    \E t \in InitThresholds : AWSetBufferThresholdStep(t) /\ UNCHANGED histories

HandoffGetCurrentBufferFill == AWGetCurrentBufferFillStep /\ UNCHANGED histories
HandoffClearBuffer == AWClearBufferStep /\ UNCHANGED histories
HandoffWPOnMessage == WPOnMessageStep /\ UNCHANGED histories
HandoffWPProcess == WPProcessStep /\ UNCHANGED histories
HandoffAWOnMessage == AWOnMessageStep /\ UNCHANGED histories

HandoffNext ==
    \/ HandoffFeed
    \/ HandoffWPOnDirectMessage
    \/ HandoffSetBufferThreshold
    \/ HandoffGetCurrentBufferFill
    \/ HandoffClearBuffer
    \/ HandoffWPOnMessage
    \/ HandoffWPProcess
    \/ HandoffAWOnMessage

SpecHandoff == HandoffInit /\ [][HandoffNext]_vars

(* ------- SpecHooks: the hooks of a node that createNode builds --------- *)
\* the thresholds createNode can hand to a backend: `options.bufferThreshold
\* || 4096` is never 0
CreateThresholds == {InitBufferLength}

\* the hooks a sequence of notified states invokes, in order
RECURSIVE HooksFor(_)
HooksFor(notes) ==
    IF notes = <<>> THEN <<>> ELSE HookFor(Head(notes)) \o HooksFor(Tail(notes))

\* state changes notified and not yet lost or counted as a hook
NotesSoFar == Len(hooks) + Cardinality(Posted(toMain, "stateChange"))

\* createBackend has resolved: the backend is constructed, createResampler is
\* still to be called, no FeederNode exists
HooksInit ==
    /\ bufferType \in {RING_BUFFER, FIFO_QUEUE}
    /\ nChannels \in {1, 2}
    /\ \E threshold \in CreateThresholds :
         SPConstructed(threshold) \/ AWConstructed(threshold)
    /\ NoObservation
    /\ NoHistory
    /\ NoProtocol
    /\ options = NodeOptions(FALSE, backend = WORKLET)
    /\ createLog = <<"createBackend", "backendCreated">>
    /\ hooks = <<>>
    /\ resamplerIn = <<>>

\* a processed batch reaches backend.feed through the node
HooksFeed ==
    /\ Reached("FeederNode")
    /\ \E n \in FeedSizes :
         IF backend = SCRIPT THEN SPFeedStep(n) ELSE n = 1 /\ AWFeedStep(n)
    /\ UNCHANGED histories

\* node.setBufferThreshold(threshold)
HooksSetBufferThreshold ==
    /\ Reached("FeederNode")
    /\ \E t \in InitThresholds :
         IF backend = SCRIPT THEN SPSetBufferThresholdStep(t)
         ELSE AWSetBufferThresholdStep(t)
    /\ UNCHANGED histories

\* onaudioprocess of the script node, which fires once the node is connected:
\* onStateChange is the node's _onBackendStateChange by then
HooksSPPlayNext ==
    /\ Reached("FeederNode")
    /\ NotesSoFar < MaxHist
    /\ SPPlayNextStep
    /\ hooks' = hooks \o HooksFor(emitted')
    /\ UNCHANGED <<queueHistory, noteHistory, options, createLog, resamplerIn,
                   protocolSide>>

\* process() of the worklet processor, which runs from the moment the
\* AudioWorkletNode exists
HooksWPProcess ==
    /\ NotesSoFar < MaxHist
    /\ WPProcessStep
    /\ UNCHANGED histories

HooksNext ==
    \/ ResamplerStarted
    \/ ResamplerCreated
    \/ NodeConstructed
    \/ CreateWPOnMessage
    \/ CreateAWOnMessage
    \/ HooksFeed
    \/ HooksSetBufferThreshold
    \/ HooksSPPlayNext
    \/ HooksWPProcess

SpecHooks == HooksInit /\ [][HooksNext]_vars

(* ------- SpecIdle: threshold 0 and nothing ever fed -------------------- *)
\* an adapter that has reached READY with threshold 0 and holds nothing
IdleInit ==
    /\ bufferType \in {RING_BUFFER, FIFO_QUEUE}
    /\ nChannels \in {1, 2}
    /\ backend \in {SCRIPT, WORKLET}
    /\ state = READY
    /\ bufferThreshold = 0
    /\ buffer = NewBuffer(bufferType, InitBufferLength, nChannels)
    /\ bufferLength = IF backend = WORKLET THEN InitBufferLength ELSE 0
    /\ currentBufferFill = 0
    /\ toProc = <<>>
    /\ toMain = <<>>
    /\ NoObservation
    /\ NoHistory
    /\ NoProtocol
    /\ NoNode

IdleSPPlayNext ==
    /\ playingNotes < NoteCap
    /\ starvedNotes < NoteCap
    /\ SPPlayNextStep
    /\ CountNotes

IdleWPProcess ==
    /\ playingNotes < NoteCap
    /\ starvedNotes < NoteCap
    /\ WPProcessStep
    /\ CountNotes

IdleSPClearBuffer == SPClearBufferStep /\ UNCHANGED histories
IdleAWClearBuffer == AWClearBufferStep /\ UNCHANGED histories
IdleSPGetCurrentBufferFill == SPGetCurrentBufferFillStep /\ UNCHANGED histories
IdleAWGetCurrentBufferFill == AWGetCurrentBufferFillStep /\ UNCHANGED histories
IdleWPOnMessage == WPOnMessageStep /\ UNCHANGED histories
IdleAWOnMessage == AWOnMessageStep /\ UNCHANGED histories

IdleNext ==
    \/ IdleSPPlayNext
    \/ IdleWPProcess
    \/ IdleSPClearBuffer
    \/ IdleAWClearBuffer
    \/ IdleSPGetCurrentBufferFill
    \/ IdleAWGetCurrentBufferFill
    \/ IdleWPOnMessage
    \/ IdleAWOnMessage

SpecIdle == IdleInit /\ [][IdleNext]_vars

(* ------- SpecThreshold: thresholds requested and thresholds applied ---- *)
\* the history of thresholds: `issued` is the threshold of the construction
\* followed by the accepted setBufferThreshold calls, `applied` the values the
\* adapter has taken, in order
Requested(threshold, isApplied) ==
    [issued |-> <<threshold>>,
     applied |-> IF isApplied THEN <<threshold>> ELSE <<>>]

Last(seq) == seq[Len(seq)]

\* get bufferThreshold() of the node: the backend's bufferThreshold property.
\* The script backend assigns it in its constructor and in
\* setBufferThreshold; the worklet backend never assigns it
BufferThresholdGetter == IF backend = SCRIPT THEN Opt(bufferThreshold) ELSE Absent

ThresholdInit ==
    /\ bufferType = FIFO_QUEUE
    /\ nChannels = 1
    /\ \E threshold \in InitThresholds :
         \/ SPConstructed(threshold) /\ requestedThreshold = Requested(threshold, TRUE)
         \/ AWConstructed(threshold) /\ requestedThreshold = Requested(threshold, FALSE)
    /\ NoObservation
    /\ NoHistory
    /\ fillCallbacks = NoCallbacks
    /\ toProcDirect = <<>>
    /\ NoNode

\* node.setBufferThreshold(threshold): an accepted call is issued, and over
\* the script backend applied in the call
ThresholdSet ==
    /\ Len(requestedThreshold.issued) < MaxHist
    /\ \E t \in ThresholdArgs :
         /\ IF backend = SCRIPT THEN SPSetBufferThresholdStep(t)
            ELSE AWSetBufferThresholdStep(t)
         /\ requestedThreshold' =
               IF thrown' THEN requestedThreshold
               ELSE [issued |-> Append(requestedThreshold.issued, t),
                     applied |-> IF backend = SCRIPT
                                 THEN Append(requestedThreshold.applied, t)
                                 ELSE requestedThreshold.applied]
    /\ UNCHANGED <<queueHistory, noteHistory, nodeSide, fillCallbacks, toProcDirect>>

\* node.bufferThreshold is read
ThresholdGet ==
    /\ Observe(<<"FeederNode", "bufferThreshold">>, 0, FALSE, BufferThresholdGetter)
    /\ UNCHANGED <<config, adapter, mainSide, ports, clearedPlaying, histories>>

\* the processor takes a message; init and setBufferThreshold apply a threshold
ThresholdWPOnMessage ==
    /\ WPOnMessageStep
    /\ requestedThreshold' =
          IF Head(toProc).command \in {"init", "setBufferThreshold"}
          THEN [requestedThreshold EXCEPT !.applied = Append(@, bufferThreshold')]
          ELSE requestedThreshold
    /\ UNCHANGED <<queueHistory, noteHistory, nodeSide, fillCallbacks, toProcDirect>>

ThresholdFeed ==
    /\ \E n \in WorkletFeedSizes :
         IF backend = SCRIPT THEN SPFeedStep(n) ELSE AWFeedStep(n)
    /\ UNCHANGED histories

ThresholdSPPlayNext == SPPlayNextStep /\ UNCHANGED histories
ThresholdWPProcess == WPProcessStep /\ UNCHANGED histories
ThresholdAWOnMessage == AWOnMessageStep /\ UNCHANGED histories

ThresholdNext ==
    \/ ThresholdSet
    \/ ThresholdGet
    \/ ThresholdWPOnMessage
    \/ ThresholdFeed
    \/ ThresholdSPPlayNext
    \/ ThresholdWPProcess
    \/ ThresholdAWOnMessage

SpecThreshold == ThresholdInit /\ [][ThresholdNext]_vars

(* ------- SpecCallback: fill queries with one-shot callbacks ------------- *)
CallbackInit ==
    /\ bufferType \in {RING_BUFFER, FIFO_QUEUE}
    /\ nChannels = 1
    /\ \E threshold \in InitThresholds : AWConstructed(threshold)
    /\ NoObservation
    /\ NoHistory
    /\ NoProtocol
    /\ NoNode

\* a caller asks for the fill under the next request id, and may leave a
\* one-shot callback under that id. No method of the backend does this: the
\* table and the counter are there, the registration is the caller's
RequestFill ==
    /\ backend = WORKLET
    /\ Len(toProc) + Len(toMain) < MaxQueue
    /\ fillCallbacks.nextCallbackId <= MaxCallbackId
    /\ \E register \in BOOLEAN :
         LET k == fillCallbacks.nextCallbackId
         IN  /\ fillCallbacks' =
                   [fillCallbacks EXCEPT
                      !.table = IF register THEN @ \cup {k} ELSE @,
                      !.nextCallbackId = k + 1]
             /\ toProc' = Append(toProc, [command |-> "getBufferFill",
                                          callbackId |-> CallbackId(k)])
             /\ Observe(<<"caller", "requestFill">>, k, FALSE, NoResult)
    /\ UNCHANGED <<config, adapter, mainSide, toMain, clearedPlaying,
                   queueHistory, noteHistory, nodeSide, toProcDirect,
                   requestedThreshold>>

CallbackFeed == \E n \in WorkletFeedSizes : AWFeedStep(n) /\ UNCHANGED histories
CallbackGetCurrentBufferFill == AWGetCurrentBufferFillStep /\ UNCHANGED histories
CallbackWPOnMessage == WPOnMessageStep /\ UNCHANGED histories

\* the backend takes the oldest message of the processor
CallbackAWOnMessage ==
    /\ AWOnMessageStep
    /\ fillCallbacks' = AWResolveCallback(Head(toMain), fillCallbacks)
    /\ UNCHANGED <<queueHistory, noteHistory, nodeSide, toProcDirect,
                   requestedThreshold>>

CallbackNext ==
    \/ RequestFill
    \/ CallbackFeed
    \/ CallbackGetCurrentBufferFill
    \/ CallbackWPOnMessage
    \/ CallbackAWOnMessage

SpecCallback == CallbackInit /\ [][CallbackNext]_vars

(* ------- SpecProtocol: the worklet ports with stray messages ----------- *)
\* commands outside the vocabulary of the receiving side
StrayToProcessorCommands == {"bogus", "stateChange"}
StrayToBackendCommands == {"bogus", "init"}

ProtocolInit ==
    /\ bufferType \in {RING_BUFFER, FIFO_QUEUE}
    /\ nChannels \in {1, 2}
    /\ \E threshold \in InitThresholds : AWConstructed(threshold)
    /\ NoObservation
    /\ NoHistory
    /\ NoProtocol
    /\ NoNode

\* a message with an unknown command arrives at the processor's port
StrayToProcessor ==
    /\ Len(toProc) + Len(toMain) < MaxQueue
    /\ \E c \in StrayToProcessorCommands :
         toProc' = Append(toProc, [command |-> c])
    /\ Observe(<<"port", "postMessage">>, 0, FALSE, NoResult)
    /\ UNCHANGED <<config, adapter, mainSide, toMain, clearedPlaying, histories>>

\* a message with an unknown command arrives at the backend's port
StrayToBackend ==
    /\ Len(toProc) + Len(toMain) < MaxQueue
    /\ \E c \in StrayToBackendCommands :
         toMain' = Append(toMain, [command |-> c])
    /\ Observe(<<"port", "postMessage">>, 0, FALSE, NoResult)
    /\ UNCHANGED <<config, adapter, mainSide, toProc, clearedPlaying, histories>>

ProtocolFeed == \E n \in WorkletFeedSizes : AWFeedStep(n) /\ UNCHANGED histories
ProtocolGetCurrentBufferFill == AWGetCurrentBufferFillStep /\ UNCHANGED histories
ProtocolWPOnMessage == WPOnMessageStep /\ UNCHANGED histories
ProtocolAWOnMessage == AWOnMessageStep /\ UNCHANGED histories
ProtocolWPProcess == WPProcessStep /\ UNCHANGED histories

ProtocolNext ==
    \/ StrayToProcessor
    \/ StrayToBackend
    \/ ProtocolFeed
    \/ ProtocolGetCurrentBufferFill
    \/ ProtocolWPOnMessage
    \/ ProtocolAWOnMessage
    \/ ProtocolWPProcess

SpecProtocol == ProtocolInit /\ [][ProtocolNext]_vars

(* ============================== claims ================================= *)
Pull == <<"adapter", "pull">>
SetThreshold == <<"backend", "setBufferThreshold">>
ClearCall == <<"backend", "clearBuffer">>
FillCall == <<"backend", "getCurrentBufferFill">>
HealthCall == <<"FeederNode", "getBufferHealth">>

Silent(outs) ==
    /\ DOMAIN outs = 1..nChannels
    /\ \A j \in 1..nChannels : outs[j] = Zeros(BatchSize)

\* the transition table of the playback state machine, as the claim states it
Table(st, readable, threshold) ==
    IF st = PLAYING /\ readable = 0 THEN STARVED
    ELSE IF st \in {READY, STARVED} /\ readable >= threshold THEN PLAYING
    ELSE st

\* C1: at a pull the state changes only by the table: PLAYING becomes STARVED
\* exactly when no frame is readable, READY or STARVED becomes PLAYING exactly
\* when the readable length has reached the threshold, and every other
\* combination (UNINITIALIZED included) keeps the state.
C1_StateUpdate ==
    [][lastOp' = Pull =>
         /\ (state = PLAYING /\ state' = STARVED) <=> (state = PLAYING /\ BufferedFrames = 0)
         /\ (state \in {READY, STARVED} /\ state' = PLAYING)
              <=> (state \in {READY, STARVED} /\ BufferedFrames >= bufferThreshold)
         /\ state = UNINITIALIZED => state' = UNINITIALIZED
         /\ state' # state => \/ state = PLAYING /\ state' = STARVED
                              \/ state \in {READY, STARVED} /\ state' = PLAYING]_vars

\* a pull of the worklet processor found the buffer drained: PLAYING -> STARVED
C1_Witness ==
    lastOp = Pull /\ backend = WORKLET /\ state = STARVED /\ emitted = <<STARVED>>

\* C2: a pull that changes the state emits exactly one notification, carrying
\* the new state; a pull that keeps the state emits none; nothing but a pull
\* and the processor's initialization emits a notification.
C2_Notifications ==
    [][/\ lastOp' = Pull =>
            emitted' = IF state' # state THEN <<state'>> ELSE <<>>
       /\ lastOp' \notin {Pull, <<"processor", "init">>} =>
            emitted' = <<>> /\ state' = state]_vars

\* a pull of the script backend took READY to PLAYING and said so, once
C2_Witness ==
    lastOp = Pull /\ backend = SCRIPT /\ state = PLAYING /\ emitted = <<PLAYING>>

\* C3: a pull runs the state update once and first; in state PLAYING it then
\* reads BatchSize frames (what is there, zero-padded) out of the buffer, in
\* every other state the output is all zero and the buffer is left alone.
C3_PullOutput ==
    [][lastOp' = Pull =>
         /\ state' = (IF state = UNINITIALIZED THEN state
                      ELSE Table(state, BufferedFrames, bufferThreshold))
         /\ Len(emitted') <= 1
         /\ IF state' = PLAYING
            THEN LET n == Min(BatchSize, BufferedFrames)
                     old == Content(buffer)
                 IN  /\ DOMAIN output' = 1..nChannels
                     /\ \A j \in 1..nChannels :
                          output'[j] = SubSeq(Channel(old, j), 1, n) \o Zeros(BatchSize - n)
                     /\ Content(buffer') = SubSeq(old, n * nChannels + 1, Len(old))
                     /\ GetNReadableSamples(buffer') = BufferedFrames - n
            ELSE Silent(output') /\ buffer' = buffer]_vars

\* a pull entered PLAYING and put buffered frames into the output
C3_Witness ==
    /\ lastOp = Pull
    /\ emitted = <<PLAYING>>
    /\ \E j \in 1..nChannels : output[j][1] # 0

\* C4: starting READY with a positive threshold, a pull below the threshold
\* emits nothing and no PLAYING notification has ever been emitted; the pull
\* that finds the threshold reached emits the one PLAYING notification; with
\* no further feed the pull that finds the buffer drained emits the one STARVED
\* notification, and pulls after it emit nothing.
C4_FillThenDrain ==
    [][/\ (lastOp' = Pull /\ state = READY /\ BufferedFrames < bufferThreshold) =>
            emitted' = <<>> /\ playingNotes' = 0 /\ starvedNotes' = 0
       /\ (lastOp' = Pull /\ state = READY /\ BufferedFrames >= bufferThreshold) =>
            emitted' = <<PLAYING>> /\ playingNotes' = 1 /\ starvedNotes' = 0
       /\ (lastOp' = Pull /\ state = PLAYING /\ BufferedFrames > 0) =>
            emitted' = <<>> /\ playingNotes' = 1 /\ starvedNotes' = 0
       /\ (lastOp' = Pull /\ state = PLAYING /\ BufferedFrames = 0) =>
            emitted' = <<STARVED>> /\ playingNotes' = 1 /\ starvedNotes' = 1
       /\ (lastOp' = Pull /\ state = STARVED) =>
            emitted' = <<>> /\ playingNotes' = 1 /\ starvedNotes' = 1
       /\ lastOp' # Pull => UNCHANGED <<state, noteHistory>>]_vars

\* a pull of the drained, starved worklet processor after both notifications
C4_Witness ==
    /\ lastOp = Pull
    /\ backend = WORKLET
    /\ state = STARVED
    /\ emitted = <<>>
    /\ playingNotes = 1
    /\ starvedNotes = 1

\* C10: per channel, the frames the reads of a FIFO queue have returned,
\* followed by the frames the queue still holds, are the frames written, in
\* order: the reads return a prefix of the writes, nothing lost or repeated.
C10_QueueReadsPrefix ==
    \A j \in 1..nChannels :
       /\ readOut[j] \o Channel(Content(buffer), j) = written[j]
       /\ Len(readOut[j]) <= Len(written[j])
       /\ readOut[j] = SubSeq(written[j], 1, Len(readOut[j]))
       /\ AQGetNReadableSamples(buffer) = Len(written[j]) - Len(readOut[j])

\* one read of three frames took a two-channel chunk whole and a part of the
\* next one, whose rest stays in the queue
C10_Witness ==
    /\ lastOp = <<"AudioQueue", "read">>
    /\ arg = 3
    /\ nChannels = 2
    /\ Len(readOut[1]) = 3
    /\ Len(written[1]) = 4
    /\ Len(buffer.queue) = 1

\* C6: with threshold 0, a READY adapter holding no frame goes to PLAYING at
\* the pull, with one PLAYING notification and a full batch of zeros.
C6_ThresholdZero ==
    [][(lastOp' = Pull /\ state = READY /\ bufferThreshold = 0 /\ BufferedFrames = 0) =>
         /\ state' = PLAYING
         /\ emitted' = <<PLAYING>>
         /\ Silent(output')]_vars

C6_Witness ==
    /\ lastOp = Pull
    /\ state = PLAYING
    /\ emitted = <<PLAYING>>
    /\ bufferThreshold = 0
    /\ Silent(output)
    /\ bufferType = FIFO_QUEUE

\* C5 as stated: on both backends getCurrentBufferFill() right after
\* clearBuffer() returns 0, and a pull that follows a clear which took effect
\* in state PLAYING (no write between) ends STARVED with a silent output.
C5_AsStated ==
    [][/\ (lastOp = ClearCall /\ lastOp' = FillCall) => result'.val = 0
       /\ (lastOp' = Pull /\ clearedPlaying = "cleared") => state' = STARVED /\ Silent(output')]_vars

\* C5 as amended: the script backend's getCurrentBufferFill() right after
\* clearBuffer() returns 0; the worklet backend's clearBuffer() only posts the
\* clearBuffer message, its getCurrentBufferFill() returns the fill of the
\* last delivered bufferFillUpdate, which the clear does not reset, and the
\* processor's buffer is empty once it has handled the message; on both, a
\* pull that follows a clear which took effect in state PLAYING (no write
\* between) ends STARVED with a silent output.
C5_ClearThenFill ==
    [][/\ (backend = SCRIPT /\ lastOp = ClearCall /\ lastOp' = FillCall) => result'.val = 0
       /\ (backend = WORKLET /\ lastOp' = ClearCall) =>
             /\ currentBufferFill' = currentBufferFill
             /\ toProc' = Append(toProc, [command |-> "clearBuffer"])
             /\ toMain' = toMain
             /\ buffer' = buffer
       /\ (backend = WORKLET /\ lastOp' = FillCall) => result'.val = currentBufferFill
       /\ lastOp' = <<"processor", "clearBuffer">> => BufferedFrames' = 0
       /\ clearedPlaying' = "cleared" => state' = PLAYING /\ BufferedFrames' = 0
       /\ (lastOp' = Pull /\ clearedPlaying = "cleared") => state' = STARVED /\ Silent(output')]_vars

\* the pull after a clear that emptied a PLAYING adapter's buffer, which held
\* frames until then
C5_Witness ==
    /\ lastOp = Pull
    /\ clearedPlaying = "pulled"
    /\ state = STARVED
    /\ emitted = <<STARVED>>
    /\ Silent(output)
    /\ BufferedFrames = 0
    /\ backend = SCRIPT
    /\ bufferType = FIFO_QUEUE

InUnitInterval(h) == h.kind = "ratio" /\ 0 <= h.num /\ h.num <= h.den

\* C7: getBufferHealth() returns a number h with 0 <= h <= 1 in every
\* reachable state.
C7_HealthInUnitInterval == lastOp = HealthCall => InUnitInterval(result)

\* the capacity the buffer was configured with, or has grown to, as the
\* backend knows it
ConfiguredCapacity ==
    IF backend = WORKLET THEN bufferLength
    ELSE IF buffer.kind = FIFO_QUEUE THEN buffer.initialCapacity
    ELSE buffer.bufferLength

\* C8: setBufferThreshold(t) throws exactly when t < 0 or t exceeds the
\* configured capacity, whatever the fill.
C8_ThresholdValidation ==
    [][lastOp' = SetThreshold =>
         (thrown' <=> (arg' < 0 \/ arg' > ConfiguredCapacity))]_vars

\* C9: a rejected setBufferThreshold(t) throws in the call itself and changes
\* nothing: the threshold, the state, the buffer, and no message is posted.
C9_RejectedThresholdNoEffect ==
    [][(lastOp' = SetThreshold /\ thrown') =>
         /\ (arg' < 0 \/ arg' > BackendBufferLength)
         /\ UNCHANGED <<config, adapter, mainSide, ports>>]_vars

\* an over-capacity threshold was rejected by the worklet backend while
\* messages were in flight
C9_Witness ==
    /\ lastOp = SetThreshold
    /\ thrown
    /\ arg > 0
    /\ backend = WORKLET
    /\ toProc # <<>>

QueueRead == <<"AudioQueue", "read">>
QueueClear == <<"AudioQueue", "clear">>

\* C11: a read of a FIFO queue that supplies no arrays returns, per channel,
\* an array of exactly min(n, readable) positions.
C11_ImplicitReadLength ==
    [][(lastOp' = QueueRead /\ ~result'.supplied) =>
         /\ DOMAIN output' = 1..nChannels
         /\ \A j \in 1..nChannels :
              Len(output'[j]) = Min(arg', AQGetNReadableSamples(buffer))]_vars

\* C12: a read of a FIFO queue into supplied arrays of n positions returns all
\* n positions per channel: the oldest min(n, readable) frames in order, then
\* zeros, whatever the arrays held before.
C12_ExplicitReadZeroFill ==
    [][(lastOp' = QueueRead /\ result'.supplied) =>
         LET got == Min(arg', AQGetNReadableSamples(buffer))
         IN  /\ DOMAIN output' = 1..nChannels
             /\ \A j \in 1..nChannels :
                  output'[j] = SubSeq(Channel(Content(buffer), j), 1, got)
                                 \o Zeros(arg' - got)]_vars

\* a read into supplied arrays found fewer frames than asked for: data first,
\* zeros after it
C12_Witness ==
    /\ lastOp = QueueRead
    /\ result.supplied
    /\ arg = 3
    /\ output[1][1] # 0
    /\ output[1][2] # 0
    /\ output[1][3] = 0

\* C13: the readable length of a FIFO queue, and its bufferLength, is the sum
\* of the unread chunk lengths in frames and the frames written less the
\* frames read since the last clear; it is never negative; a read of n frames
\* lowers it by min(n, readable) and a clear makes it 0.
C13_ReadableLength ==
    [][LET before == AQGetNReadableSamples(buffer)
           after == AQGetNReadableSamples(buffer')
       IN  /\ after = Len(Content(buffer')) \div nChannels
           /\ AQBufferLength(buffer') = after
           /\ after = Len(written'[1]) - Len(readOut'[1])
           /\ after >= 0
           /\ lastOp' = QueueRead => after = before - Min(arg', before)
           /\ lastOp' = QueueClear => after = 0]_vars

\* a read took a part of what a two-channel queue held
C13_Witness ==
    /\ lastOp = QueueRead
    /\ nChannels = 2
    /\ arg = 1
    /\ Len(readOut[1]) = 1
    /\ AQGetNReadableSamples(buffer) = 2
    /\ Len(buffer.queue) = 2

CreateCall == <<"index", "createNode">>
BackendBuilt == <<"index", "createBackend">>

\* is a member the caller supplied outside the range the claim gives for it?
SuppliedOutside(o, lo, hi) == o.set /\ (o.val < lo \/ o.val > hi)

\* a configuration C14 wants rejected
OutOfRange(o) ==
    \/ SuppliedOutside(o.nChannels, 1, 2)
    \/ o.batchSize.set /\ o.batchSize.val \notin VALID_BATCH_SIZES
    \/ o.bufferLength.set /\ o.bufferLength.val < MIN_BUFFER_LENGTH
    \/ SuppliedOutside(o.bufferThreshold, 0, Resolve(o).bufferLength)
    \/ SuppliedOutside(o.resampConverterType, 0, MAX_CONVERTER_TYPE)
    \/ SuppliedOutside(o.inputSampleRate, 1, MAX_SAMPLE_RATE)

\* C14: a createNode call whose supplied channel count, batch size, buffer
\* length, threshold, converter type or input sample rate is out of range is
\* rejected, and no backend, buffer or resampler is created for it.
C14_InvalidConfigRejected ==
    [][(lastOp' = CreateCall /\ OutOfRange(options')) =>
         /\ thrown'
         /\ createLog' = <<"rejected">>
         /\ backend' = "none"
         /\ buffer' = NoBuffer]_vars

\* the threshold the rendering adapter is initialized with
InitThreshold ==
    IF backend = SCRIPT THEN bufferThreshold ELSE Head(toProc).bufferThreshold

\* C15: a threshold t with 0 <= t <= buffer length supplied to createNode is
\* accepted (the rest of the configuration being valid) and is the threshold
\* the adapter is initialized with.
C15_ThresholdHonoured ==
    [][LET t == options'.bufferThreshold
           r == Resolve(options')
           inRange == t.set /\ 0 <= t.val /\ t.val <= r.bufferLength
       IN  /\ (lastOp' = CreateCall /\ inRange
                 /\ ~ValidateThrows([r EXCEPT !.bufferThreshold = t.val])) => ~thrown'
           /\ (lastOp' = BackendBuilt /\ inRange) => InitThreshold' = t.val]_vars

\* C16: createResampler is called only after createBackend has resolved, and
\* the FeederNode is constructed only after both have resolved.
C16_BackendBeforeResampler ==
    /\ Reached("createResampler") =>
          /\ Reached("backendCreated")
          /\ Pos(createLog, "backendCreated") < Pos(createLog, "createResampler")
          /\ backend \in {SCRIPT, WORKLET}
    /\ Reached("resamplerCreated") =>
          Pos(createLog, "createResampler") < Pos(createLog, "resamplerCreated")
    /\ Reached("FeederNode") =>
          /\ Reached("backendCreated")
          /\ Reached("resamplerCreated")
          /\ Pos(createLog, "backendCreated") < Pos(createLog, "FeederNode")
          /\ Pos(createLog, "resamplerCreated") < Pos(createLog, "FeederNode")

\* createNode has run to the construction of the FeederNode on a worklet
\* backend
C16_Witness ==
    /\ lastOp = <<"FeederNode", "constructor">>
    /\ backend = WORKLET
    /\ createLog = <<"createBackend", "backendCreated", "createResampler",
                     "resamplerCreated", "FeederNode">>

\* C17: the adapter's entry into READY, PLAYING or STARVED invokes the hook of
\* that state, once: the step that enters READY invokes onBackendReady or
\* posts the stateChange message that will, and the delivery of a stateChange
\* message invokes the hook of the state it carries.
C17_HookPerTransition ==
    [][/\ (state # READY /\ state' = READY) =>
            \/ hooks' = hooks \o <<"onBackendReady">>
            \/ toMain' = Append(toMain, StateChange(READY))
       /\ lastOp' = <<"backend", "stateChange">> =>
            hooks' = hooks \o HookFor(Head(toMain).state)]_vars

ProcessorCommands ==
    {"init", "feed", "setBufferThreshold", "connect", "getBufferFill", "clearBuffer"}
BackendCommands == {"bufferLengthChange", "stateChange", "bufferFillUpdate"}

\* C18: the handler that takes a message with a command outside its
\* vocabulary throws and changes nothing, on the processor's side and on the
\* backend's side; a message with a command of the vocabulary is not refused.
C18_UnknownCommandThrows ==
    [][/\ (toProc # <<>> /\ toProc' = Tail(toProc)) =>
            IF Head(toProc).command \in ProcessorCommands
            THEN ~thrown'
            ELSE thrown' /\ UNCHANGED <<config, adapter, mainSide, toMain>>
       /\ (toMain # <<>> /\ toMain' = Tail(toMain)) =>
            IF Head(toMain).command \in BackendCommands
            THEN ~thrown'
            ELSE thrown' /\ UNCHANGED <<config, adapter, mainSide, toProc>>]_vars

\* the playing processor has refused a message with an unknown command
C18_Witness ==
    /\ lastOp = <<"processor", "bogus">>
    /\ thrown
    /\ state = PLAYING
    /\ BufferedFrames > 0

\* C20: the worklet backend's getCurrentBufferFill() returns in the call the
\* fill of the last bufferFillUpdate delivered (0 before the first), which
\* nothing but such a delivery changes, and posts one getBufferFill query;
\* the processor answers each query it handles with one bufferFillUpdate that
\* carries its readable length of that moment.
C20_CachedFill ==
    [][/\ (backend = WORKLET /\ lastOp' = FillCall) =>
            /\ result' = Number(currentBufferFill)
            /\ toProc' = Append(toProc, [command |-> "getBufferFill",
                                         callbackId |-> NoCallbackId])
            /\ UNCHANGED <<adapter, mainSide, toMain>>
       /\ IF toMain # <<>> /\ toMain' = Tail(toMain)
             /\ Head(toMain).command = "bufferFillUpdate"
          THEN currentBufferFill' = Head(toMain).bufferFill
          ELSE currentBufferFill' = currentBufferFill
       /\ lastOp' = <<"processor", "getBufferFill">> =>
            /\ toMain' = Append(toMain, BufferFillUpdate(BufferedFrames,
                                                         Head(toProc).callbackId))
            /\ UNCHANGED adapter]_vars

\* a call that returned a fill delivered earlier while the processor already
\* held less
C20_Witness ==
    /\ lastOp = FillCall
    /\ backend = WORKLET
    /\ result.val > BufferedFrames
    /\ currentBufferFill = result.val

NodeFeedCall == <<"FeederNode", "feed">>
QueueWrite == <<"AudioQueue", "write">>

\* C19: FeederNode.feed(data) throws in the call exactly when data is no typed
\* array, and then hands nothing to the resampler and leaves the buffer, the
\* state and the ports alone; AudioQueue.write with data that is no typed
\* array throws and leaves the queue and its fill alone.
C19_NotTypedRefused ==
    [][/\ lastOp' = NodeFeedCall =>
            /\ thrown' <=> ~result'.view
            /\ thrown' => UNCHANGED <<config, adapter, mainSide, ports, resamplerIn>>
            /\ ~thrown' => Len(resamplerIn') = Len(resamplerIn) + 1
       /\ (lastOp' = QueueWrite /\ ~result'.view) =>
            /\ thrown'
            /\ UNCHANGED <<config, adapter, mainSide, ports, resamplerIn>>]_vars

\* a plain array was refused by node.feed while a batch was with the
\* resampler and frames were buffered
C19_Witness ==
    /\ lastOp = NodeFeedCall
    /\ thrown
    /\ result.type = "Array"
    /\ resamplerIn # <<>>
    /\ BufferedFrames > 0

ProcessorInit == <<"processor", "init">>

\* C21: the worklet processor starts UNINITIALIZED and its initialization
\* makes it READY; the script backend starts READY; no step takes the state
\* back to UNINITIALIZED once it has left it, and from PLAYING or STARVED the
\* state only ever goes to PLAYING or STARVED.
C21_StateNeverGoesBack ==
    /\ backend = WORKLET => state = UNINITIALIZED
    /\ backend = SCRIPT => state = READY
    /\ [][/\ lastOp' = ProcessorInit => state = UNINITIALIZED /\ state' = READY
          /\ state # UNINITIALIZED => state' # UNINITIALIZED
          /\ state = UNINITIALIZED => state' \in {UNINITIALIZED, READY}
          /\ state \in {PLAYING, STARVED} => state' \in {PLAYING, STARVED}]_vars

\* the worklet processor, initialized and once PLAYING, ran dry at a pull and
\* is STARVED
C21_Witness ==
    /\ backend = WORKLET
    /\ lastOp = Pull
    /\ state = STARVED
    /\ emitted = <<STARVED>>
    /\ toProc = <<>>

\* C22: over a FIFO queue no write reports a resize, the processor posts no
\* bufferLengthChange, and the worklet backend's bufferLength stays the one it
\* was constructed with.
C22_FifoNeverResizes ==
    bufferType = FIFO_QUEUE =>
        /\ buffer.kind = FIFO_QUEUE =>
              \A n \in FeedSizes : ~AQWrite(buffer, Ramp(n)).didResize
        /\ backend = WORKLET =>
              /\ Posted(toMain, "bufferLengthChange") = {}
              /\ bufferLength = InitBufferLength

\* the processor has written a batch to a FIFO queue that now holds more
\* frames than the length it was created with
C22_Witness ==
    /\ backend = WORKLET
    /\ buffer.kind = FIFO_QUEUE
    /\ lastOp = <<"processor", "feed">>
    /\ BufferedFrames > InitBufferLength
    /\ Posted(toMain, "bufferFillUpdate") # {}

NodeConstructor == <<"FeederNode", "constructor">>

\* C23: the constructor makes the channel exactly for a worker resampler over
\* a worklet backend, and assigns the resampler's onProcessed callback only
\* when it made no channel.
C23_OneRoute ==
    lastOp = NodeConstructor =>
        /\ result.channel <=>
              (ResamplerKind(options) = "WorkerResampler" /\ backend = WORKLET)
        /\ result.onProcessed <=> ~result.channel

FillUpdateTaken == <<"backend", "bufferFillUpdate">>
FillQueryTaken == <<"processor", "getBufferFill">>

\* C24: when the backend takes a bufferFillUpdate it stores the fill; a
\* callback pending under the message's callbackId is invoked with that fill,
\* was not invoked before and leaves the table; with no callbackId, or one
\* that is not pending, nothing is invoked and the table stays. No other step
\* invokes or removes a callback, and the processor's answer to a getBufferFill
\* carries the query's callbackId.
C24_OneShotCallback ==
    [][/\ lastOp' = FillUpdateTaken =>
            LET msg == Head(toMain)
                pending == /\ msg.callbackId # NoCallbackId
                           /\ msg.callbackId[1] \in fillCallbacks.table
            IN  /\ currentBufferFill' = msg.bufferFill
                /\ pending =>
                      /\ fillCallbacks'.invoked =
                            Append(fillCallbacks.invoked,
                                   [id |-> msg.callbackId[1], fill |-> msg.bufferFill])
                      /\ \A i \in DOMAIN fillCallbacks.invoked :
                            fillCallbacks.invoked[i].id # msg.callbackId[1]
                      /\ fillCallbacks'.table =
                            fillCallbacks.table \ {msg.callbackId[1]}
                /\ ~pending =>
                      /\ fillCallbacks'.invoked = fillCallbacks.invoked
                      /\ fillCallbacks'.table = fillCallbacks.table
       /\ lastOp' # FillUpdateTaken =>
            /\ fillCallbacks'.invoked = fillCallbacks.invoked
            /\ fillCallbacks.table \subseteq fillCallbacks'.table
       /\ (lastOp' = FillQueryTaken /\ buffer.kind # Undefined) =>
            toMain' = Append(toMain, BufferFillUpdate(BufferedFrames,
                                                      Head(toProc).callbackId))]_vars

\* the callback left under the second request id has been invoked with a fill
\* of buffered frames, after a first request that left none
C24_Witness ==
    /\ lastOp = FillUpdateTaken
    /\ fillCallbacks.invoked = <<[id |-> 2, fill |-> currentBufferFill]>>
    /\ currentBufferFill > 0
    /\ fillCallbacks.table = {}

AfterInitCommands ==
    {"feed", "setBufferThreshold", "getBufferFill", "clearBuffer", "connect"}

\* C25: when the processor handles a feed, setBufferThreshold, getBufferFill,
\* clearBuffer or connect message, from either port, it has handled init: its
\* state is not UNINITIALIZED and its buffer exists, so the handler of feed
\* does not throw; a pull before init keeps UNINITIALIZED, notifies nothing,
\* writes silence and leaves the processor without a buffer.
C25_InitFirst ==
    [][/\ (lastOp'[1] = "processor" /\ lastOp'[2] \in AfterInitCommands) =>
            /\ state # UNINITIALIZED
            /\ buffer.kind # Undefined
            /\ ~thrown'
       /\ (lastOp' = Pull /\ state = UNINITIALIZED) =>
            /\ state' = UNINITIALIZED
            /\ emitted' = <<>>
            /\ Silent(output')
            /\ buffer' = NoBuffer]_vars

\* a pull ran before init was handled, while a batch of the resampler was
\* already waiting in the direct port: silence, and the batch still waits
C25_Witness ==
    /\ DirectChannel
    /\ lastOp = Pull
    /\ state = UNINITIALIZED
    /\ Silent(output)
    /\ toProcDirect # <<>>
    /\ Posted(toProc, "init") # {}

\* the onBackendPlaying and onBackendStarved invocations, in order
PlaybackHooks ==
    SelectSeq(hooks, LAMBDA h : h \in {"onBackendPlaying", "onBackendStarved"})

\* C26: the invocations of onBackendPlaying and onBackendStarved alternate and
\* the first is onBackendPlaying, on both backends.
C26_HooksAlternate ==
    \A i \in DOMAIN PlaybackHooks :
        PlaybackHooks[i] = IF i % 2 = 1 THEN "onBackendPlaying" ELSE "onBackendStarved"

\* over the worklet backend the node has seen playing, starved and playing
\* again
C26_Witness ==
    /\ backend = WORKLET
    /\ PlaybackHooks = <<"onBackendPlaying", "onBackendStarved", "onBackendPlaying">>

\* C27: with threshold 0 and nothing ever fed, every pull of the initialized
\* adapter flips the state, READY or STARVED to PLAYING and PLAYING to STARVED,
\* notifies the new state once and outputs silence; the notifications counted
\* so far are as many PLAYING as STARVED, or one PLAYING more.
C27_FlipsOnEveryPull ==
    /\ [](BufferedFrames = 0)
    /\ [](playingNotes - starvedNotes = IF state = PLAYING THEN 1 ELSE 0)
    /\ [][lastOp' = Pull =>
            /\ state' = IF state = PLAYING THEN STARVED ELSE PLAYING
            /\ emitted' = <<state'>>
            /\ Silent(output')]_vars

\* the script backend has flipped four times: a second STARVED after a second
\* PLAYING
C27_Witness ==
    /\ backend = SCRIPT
    /\ lastOp = Pull
    /\ state = STARVED
    /\ playingNotes = 2
    /\ starvedNotes = 2

ThresholdTaken == <<"processor", "setBufferThreshold">>
ThresholdInFlight == Posted(toProc, "init") \cup Posted(toProc, "setBufferThreshold")

\* C28: over the worklet backend the processor applies the construction
\* threshold and the accepted setBufferThreshold calls in the order they were
\* issued; with none of them in flight the processor's threshold is the last
\* one issued; a call, and the handling of its message, changes neither the
\* state nor the notifications.
C28_ThresholdsInOrder ==
    /\ [](backend = WORKLET =>
            /\ Len(requestedThreshold.applied) <= Len(requestedThreshold.issued)
            /\ requestedThreshold.applied =
                  SubSeq(requestedThreshold.issued, 1, Len(requestedThreshold.applied))
            /\ Len(requestedThreshold.issued) =
                  Len(requestedThreshold.applied) + Cardinality(ThresholdInFlight)
            /\ ThresholdInFlight = {} =>
                  bufferThreshold = Last(requestedThreshold.issued))
    /\ [][(backend = WORKLET /\ lastOp' \in {SetThreshold, ThresholdTaken}) =>
            /\ state' = state
            /\ emitted' = <<>>
            /\ toMain' = toMain
            /\ buffer' = buffer]_vars

\* the processor has applied the second of two accepted calls with different
\* thresholds, after a pull, and nothing is in flight
C28_Witness ==
    /\ backend = WORKLET
    /\ lastOp = ThresholdTaken
    /\ Len(requestedThreshold.applied) = 3
    /\ requestedThreshold.applied[2] # requestedThreshold.applied[3]
    /\ toProc = <<>>
    /\ state \in {PLAYING, STARVED}

ThresholdRead == <<"FeederNode", "bufferThreshold">>

\* C29: the node's bufferThreshold getter returns the threshold last
\* requested: that of the construction, or of the last accepted
\* setBufferThreshold call.
C29_GetterFollowsRequests ==
    lastOp = ThresholdRead => result = Opt(Last(requestedThreshold.issued))

====
